---- MODULE Spec2Model ----
(***************************************************************************)
(* Logic simulator front end: Names, Symbol, Scanner cursor, Parser        *)
(* (syntax phase and build phase) and the diagnostics they emit.           *)
(*                                                                         *)
(* A token text is a tuple of one-character strings, a Symbol is its       *)
(* position in Scanner.list_of_symbols (Python index, 0-based), and None   *)
(* is the integer -1.                                                      *)
(***************************************************************************)
EXTENDS Integers, Sequences, FiniteSets, TLC

None == -1

(***************************************************************************)
(* Characters (str.isalpha, str.isdigit, str.isalnum, str.lower on ASCII)  *)
(***************************************************************************)
LowerLetters == <<"a","b","c","d","e","f","g","h","i","j","k","l","m",
                  "n","o","p","q","r","s","t","u","v","w","x","y","z">>

UpperLetters == <<"A","B","C","D","E","F","G","H","I","J","K","L","M",
                  "N","O","P","Q","R","S","T","U","V","W","X","Y","Z">>

Digits == {"0","1","2","3","4","5","6","7","8","9"}

Range(s) == {s[i] : i \in DOMAIN s}

isalpha(c) == c \in Range(LowerLetters) \cup Range(UpperLetters)

isdigit(c) == c \in Digits

isalnum(c) == isalpha(c) \/ isdigit(c)

lower(c) ==
    IF c \in Range(UpperLetters)
    THEN LowerLetters[CHOOSE i \in DOMAIN UpperLetters : UpperLetters[i] = c]
    ELSE c

(***************************************************************************)
(* Token texts used by the grammar                                         *)
(***************************************************************************)
T_DEVICES == <<"D","E","V","I","C","E","S">>
T_CONNECT == <<"C","O","N","N","E","C","T">>
T_MONITOR == <<"M","O","N","I","T","O","R">>
T_END == <<"E","N","D">>
T_AND == <<"A","N","D">>
T_NAND == <<"N","A","N","D">>
T_OR == <<"O","R">>
T_NOR == <<"N","O","R">>
T_DTYPE == <<"D","T","Y","P","E">>
T_XOR == <<"X","O","R">>
T_SWITCH == <<"S","W","I","T","C","H">>
T_CLOCK == <<"C","L","O","C","K">>
T_RC == <<"R","C">>
T_SIGGEN == <<"S","I","G","G","E","N">>
T_DATA == <<"D","A","T","A">>
T_SET == <<"S","E","T">>
T_CLEAR == <<"C","L","E","A","R">>
T_CLK == <<"C","L","K">>
T_Q == <<"Q">>
T_QBAR == <<"Q","B","A","R">>
T_SEMI == <<";">>
T_COLON == <<":">>
T_COMMA == <<",">>
T_DOT == <<".">>
T_ARROW == <<">">>

(* str(i) for 1 <= i <= 16 *)
RECURSIVE DecimalText(_)
DecimalText(i) ==
    LET d == <<"0","1","2","3","4","5","6","7","8","9">>
    IN IF i < 10 THEN <<d[i + 1]>>
       ELSE DecimalText(i \div 10) \o <<d[(i % 10) + 1]>>

max_number_of_input_pins == 16

keywords == {T_DEVICES, T_CONNECT, T_MONITOR, T_END, T_AND, T_NAND, T_OR,
             T_NOR, T_DTYPE, T_XOR, T_SWITCH, T_CLOCK}

dtype_input_pins == {T_DATA, T_SET, T_CLEAR, T_CLK}

gate_pins == {<<"I">> \o DecimalText(i) : i \in 1..max_number_of_input_pins}

input_pins == gate_pins \cup dtype_input_pins

output_pins == {T_Q, T_QBAR}

punctuation == {T_SEMI, T_COLON, T_COMMA, T_DOT, T_ARROW}

punctuation_type(t) ==
    CASE t = T_SEMI -> "semi-colon"
      [] t = T_COLON -> "colon"
      [] t = T_COMMA -> "comma"
      [] t = T_DOT -> "dot"
      [] t = T_ARROW -> "arrow"

(***************************************************************************)
(* Symbol: classification and validation helpers                           *)
(***************************************************************************)
is_string(string) ==
    \A i \in DOMAIN string : isalnum(string[i]) \/ string[i] = "_"

(* an is_name that does not test the case of the letters *)
is_name_any_case(string) ==
    /\ is_string(string)
    /\ isalpha(string[1])

is_name(string) ==
    /\ is_string(string)
    /\ isalpha(string[1])
    /\ \A i \in DOMAIN string : string[i] = lower(string[i])

(* an index_not_name that accepts an upper-case first letter *)
index_not_name_any_case(string) ==
    IF ~isalpha(string[1])
    THEN <<0, 1>>
    ELSE LET bad == {i \in 2..Len(string) :
                        \/ (~isalnum(string[i]) /\ string[i] # "_")
                        \/ string[i] # lower(string[i])}
         IN IF bad = {} THEN <<None, None>>
            ELSE LET i == CHOOSE j \in bad : \A k \in bad : j <= k
                 IN IF ~isalnum(string[i]) /\ string[i] # "_"
                    THEN <<i - 1, 2>>
                    ELSE <<i - 1, 3>>

(* index_not_name: None, or <<offset, subcode>> of the first violation *)
index_not_name(string) ==
    IF (~isalpha(string[1])) \/ (string[1] # lower(string[1]))
    THEN <<0, 1>>
    ELSE LET bad == {i \in 2..Len(string) :
                        \/ (~isalnum(string[i]) /\ string[i] # "_")
                        \/ string[i] # lower(string[i])}
         IN IF bad = {} THEN <<None, None>>
            ELSE LET i == CHOOSE j \in bad : \A k \in bad : j <= k
                 IN IF ~isalnum(string[i]) /\ string[i] # "_"
                    THEN <<i - 1, 2>>
                    ELSE <<i - 1, 3>>

(* str.isdigit(): False for the empty string *)
is_number(string) ==
    string # <<>> /\ \A i \in DOMAIN string : isdigit(string[i])

is_integer(string) == is_number(string) /\ string[1] # "0"

(* an is_waveform that accepts every run of digits *)
is_waveform_any_digit(string) ==
    LET bad == {i \in DOMAIN string : string[i] \notin Digits}
    IN IF string = <<>> THEN <<FALSE, 0>>
       ELSE IF bad = {} THEN <<TRUE, None>>
       ELSE <<FALSE, (CHOOSE j \in bad : \A k \in bad : j <= k) - 1>>

(* is_waveform: <<valid, offset of the first character that is not 0/1>> *)
is_waveform(string) ==
    LET bad == {i \in DOMAIN string : string[i] \notin {"0", "1"}}
    IN IF string = <<>> THEN <<FALSE, 0>>
       ELSE IF bad = {} THEN <<TRUE, None>>
       ELSE <<FALSE, (CHOOSE j \in bad : \A k \in bad : j <= k) - 1>>

determine_type(string) ==
    IF string \in input_pins THEN "input_pin"
    ELSE IF string \in output_pins THEN "output_pin"
    ELSE IF string \in keywords THEN "keyword"
    ELSE IF is_number(string)
         THEN (IF is_integer(string) THEN "integer" ELSE "number")
    ELSE IF is_string(string)
         THEN (IF is_name(string) THEN "name" ELSE "string")
    ELSE IF string \in punctuation THEN punctuation_type(string)
    ELSE "other"

(***************************************************************************)
(* Names: query, lookup, get_name_string                                   *)
(***************************************************************************)
query(names, name_string) ==
    IF \E i \in DOMAIN names : names[i] = name_string
    THEN (CHOOSE i \in DOMAIN names :
            /\ names[i] = name_string
            /\ \A j \in DOMAIN names : names[j] = name_string => i <= j) - 1
    ELSE None

(* a lookup that appends every string without asking query *)
lookup_append_always(names, name_string_list) == names \o name_string_list

(* names_list after lookup(name_string_list) *)
RECURSIVE lookup(_, _)
lookup(names, name_string_list) ==
    IF name_string_list = <<>> THEN names
    ELSE LET s == Head(name_string_list)
         IN lookup(IF query(names, s) = None THEN Append(names, s) ELSE names,
                   Tail(name_string_list))

(* the list of ids lookup(name_string_list) returns *)
RECURSIVE lookup_ids(_, _)
lookup_ids(names, name_string_list) ==
    IF name_string_list = <<>> THEN <<>>
    ELSE LET s == Head(name_string_list)
             id == query(names, s)
             appended == IF id = None THEN Append(names, s) ELSE names
         IN <<IF id = None THEN Len(appended) - 1 ELSE id>>
            \o lookup_ids(appended, Tail(name_string_list))

(* unique_error_codes: range(start, stop) as the tuple of its integers *)
range(start, stop) == [i \in 1..(stop - start) |-> start + i - 1]

(* the value None where a text is expected *)
NoneText == <<>>

(* a get_name_string without the test 0 <= name_id: a negative index counts
   from the end of the list *)
get_name_string_from_end(names, name_id) ==
    IF name_id < Len(names) /\ Len(names) > 0
    THEN names[(name_id % Len(names)) + 1]
    ELSE NoneText

get_name_string(names, name_id) ==
    IF 0 <= name_id /\ name_id < Len(names) THEN names[name_id + 1]
    ELSE NoneText

(***************************************************************************)
(* State                                                                   *)
(***************************************************************************)
VARIABLES
    source,           \* the token texts of the definition file, in order
    names_list,       \* Names.names_list
    list_of_symbols,  \* Scanner.list_of_symbols: [id, type] per symbol
    print_to_gui,     \* Scanner.print_to_gui
    symbol_counter,   \* Scanner.symbol_counter
    printed,          \* diagnostics written to the console (direct mode)
    error_messages,   \* Scanner.error_messages (embedded mode)
    print_calls,      \* every Scanner.print_error call: symbol, arrow, message
    symbol,           \* Parser.symbol
    num_of_errors,    \* Parser.num_of_errors
    dev_list,         \* device_list's dev_list
    con_list,         \* connection_list's con_list
    mon_list,         \* monitor_list's mon_list
    list_ret,         \* value returned by the last *_list call
    network_dict,     \* network_dict's dictionary
    dict_ret,         \* value returned by Parser.network_dict
    get_calls,        \* number of Scanner.get_symbol calls made
    none_returns,     \* number of get_symbol calls that returned None
    late_calls,       \* get_symbol calls made after a None was returned
    pc,               \* position of the parse_network run
    build_index,      \* index of the next item of the running build phase
    collab_calls,     \* calls made to Devices / Network / Monitors
    ret,              \* value returned by Parser.parse_network
    input_string,     \* the text a Symbol method is applied to
    file,             \* the characters of the definition file
    error_code_count, \* Names.error_code_count
    api_calls,        \* calls made to Symbol / Names / Scanner, with results
    interface,        \* GuiInterface: which objects its five attributes hold
    update_ret,       \* value returned by GuiInterface.update_network
    devices_success,  \* src/parse.py build_network: result of build_devices
    connections_success,  \* ... of build_connections
    monitors_success  \* ... of build_monitors

vars == <<source, names_list, list_of_symbols, print_to_gui, symbol_counter,
          printed, error_messages, print_calls, symbol, num_of_errors,
          dev_list, con_list, mon_list, list_ret, network_dict, dict_ret,
          get_calls, none_returns, late_calls, pc, build_index, collab_calls,
          ret, input_string, file, error_code_count, api_calls, interface,
          update_ret, devices_success, connections_success, monitors_success>>

(* the state the runs of the parser leave alone: the Symbol, Names and
   Scanner interfaces are not called from outside during a parse *)
api_vars == <<input_string, file, error_code_count, api_calls>>

(* the failure placeholder appended to a list for a malformed item *)
NoneItem == <<None>>

(***************************************************************************)
(* GuiInterface                                                            *)
(***************************************************************************)
(* the attributes update_network assigns *)
InterfaceAttributes == {"names", "devices", "network", "monitors", "scanner"}

(* GuiInterface.__init__: the objects the interface is constructed with *)
GuiInterface == [attribute \in InterfaceAttributes |-> "current"]

(* the new_names, new_devices, new_network, new_monitors and new_scanner that
   update_network constructs *)
NewInstances == [attribute \in InterfaceAttributes |-> "new"]

(* how update_network is left: not yet, by the return of a value, or by an
   exception *)
NotLeft == [outcome |-> "pending", value |-> <<>>]

Returns(value) == [outcome |-> "return", value |-> value]

Raise == [outcome |-> "raise", value |-> <<>>]

(* what the gui and the parser leave alone in each other *)
gui_vars == <<interface, update_ret>>

(* the locals of build_network in src/parse.py, which src/final/parse.py
   does not have *)
success_vars == <<devices_success, connections_success, monitors_success>>

NotCalled == "pending"

NoPhaseCalled ==
    /\ devices_success = NotCalled
    /\ connections_success = NotCalled
    /\ monitors_success = NotCalled

(* update_network after new_parser.parse_network() has returned parsed:
   the attributes of the interface and the pair returned *)
update_network(attributes, parsed, messages) ==
    IF parsed
    THEN [attributes |-> NewInstances, returned |-> Returns(<<TRUE, messages>>)]
    ELSE [attributes |-> attributes, returned |-> Returns(<<FALSE, messages>>)]

(***************************************************************************)
(* Scanner                                                                 *)
(***************************************************************************)
Symbol(names, string) ==
    [id |-> query(names, string), type |-> determine_type(string)]

create_symbol(names, string) == Symbol(lookup(names, <<string>>), string)

(* Scanner.get_symbols over the token texts: names_list and the symbols *)
RECURSIVE get_symbols(_, _, _)
get_symbols(names, symbols, texts) ==
    IF texts = <<>> THEN [names |-> names, symbols |-> symbols]
    ELSE get_symbols(lookup(names, <<Head(texts)>>),
                     Append(symbols, create_symbol(names, Head(texts))),
                     Tail(texts))

SymType(i) == list_of_symbols[i + 1].type

SymName(i) == get_name_string(names_list, list_of_symbols[i + 1].id)

(* list_of_symbols[-1] *)
LastSymbol == Len(list_of_symbols) - 1

(* list_of_symbols[list_of_symbols.index(symbol) - 1]; index -1 is the last *)
SymbolBefore(i) == IF i = 0 THEN LastSymbol ELSE i - 1

(* The running parse as one record P: the fields the syntax phase changes *)
Cur ==
    [symbol_counter |-> symbol_counter, symbol |-> symbol,
     num_of_errors |-> num_of_errors, print_calls |-> print_calls,
     printed |-> printed, error_messages |-> error_messages,
     dev_list |-> dev_list, con_list |-> con_list, mon_list |-> mon_list,
     list_ret |-> list_ret, network_dict |-> network_dict,
     dict_ret |-> dict_ret,
     get_calls |-> get_calls, none_returns |-> none_returns,
     late_calls |-> late_calls, pc |-> pc]

Set(P) ==
    /\ symbol_counter' = P.symbol_counter
    /\ symbol' = P.symbol
    /\ num_of_errors' = P.num_of_errors
    /\ print_calls' = P.print_calls
    /\ printed' = P.printed
    /\ error_messages' = P.error_messages
    /\ dev_list' = P.dev_list
    /\ con_list' = P.con_list
    /\ mon_list' = P.mon_list
    /\ list_ret' = P.list_ret
    /\ network_dict' = P.network_dict
    /\ dict_ret' = P.dict_ret
    /\ get_calls' = P.get_calls
    /\ none_returns' = P.none_returns
    /\ late_calls' = P.late_calls
    /\ pc' = P.pc

(* a get_symbol that leaves the cursor at the end when it returns None *)
get_symbol_no_reset(P) ==
    LET next_symbol == P.symbol_counter + 1
        late == IF P.none_returns > 0 THEN 1 ELSE 0
    IN IF next_symbol < Len(list_of_symbols)
       THEN [P EXCEPT !.symbol_counter = next_symbol,
                      !.symbol = next_symbol,
                      !.get_calls = @ + 1,
                      !.late_calls = @ + late]
       ELSE [P EXCEPT !.symbol = None,
                      !.get_calls = @ + 1,
                      !.none_returns = @ + 1,
                      !.late_calls = @ + late]

get_symbol(P) ==
    LET next_symbol == P.symbol_counter + 1
        late == IF P.none_returns > 0 THEN 1 ELSE 0
    IN IF next_symbol < Len(list_of_symbols)
       THEN [P EXCEPT !.symbol_counter = next_symbol,
                      !.symbol = next_symbol,
                      !.get_calls = @ + 1,
                      !.late_calls = @ + late]
       ELSE [P EXCEPT !.symbol_counter = -1,
                      !.symbol = None,
                      !.get_calls = @ + 1,
                      !.none_returns = @ + 1,
                      !.late_calls = @ + late]

(* One diagnostic: the message, the symbol whose line is shown, and the
   caret offset from the symbol's first character *)
Diagnostic(sym, index_of_arrow, message) ==
    [symbol |-> sym, index_of_arrow |-> index_of_arrow, message |-> message]

(* Scanner.print_error: reading None.line_number raises, the exception is
   swallowed and nothing is emitted *)
print_error(P, sym, index_of_arrow, message) ==
    LET Q == [P EXCEPT !.print_calls =
                 Append(@, Diagnostic(sym, index_of_arrow, message))]
    IN IF sym = None THEN Q
       ELSE IF ~print_to_gui
            THEN [Q EXCEPT !.printed =
                     Append(@, Diagnostic(sym, index_of_arrow, message))]
            ELSE [Q EXCEPT !.error_messages =
                     Append(@, Diagnostic(sym, index_of_arrow, message))]

(***************************************************************************)
(* Parser: syntax phase                                                    *)
(***************************************************************************)
(* syntax_error_types[error_index], with the name_error suffix of kind 9 *)
SyntaxMessage(error_index, name_error) ==
    [cat |-> "syntax", code |-> error_index, sub |-> name_error]

(* display_syntax_error that does not count the end-of-file error *)
display_syntax_error_uncounted(P, error_index, sym) ==
    LET Q == IF error_index = 22 THEN P
             ELSE [P EXCEPT !.num_of_errors = @ + 1]
    IN IF error_index = 9
       THEN LET name_string == SymName(P.symbol)
            IN print_error(Q, sym, index_not_name(name_string)[1],
                           SyntaxMessage(9, index_not_name(name_string)[2]))
       ELSE IF error_index = 23
       THEN print_error(Q, sym, is_waveform(SymName(P.symbol))[2],
                        SyntaxMessage(23, 0))
       ELSE print_error(Q, sym, 0, SyntaxMessage(error_index, 0))

display_syntax_error(P, error_index, sym) ==
    LET Q == [P EXCEPT !.num_of_errors = @ + 1]
    IN IF error_index = 9
       THEN LET name_string == SymName(P.symbol)
            IN print_error(Q, sym, index_not_name(name_string)[1],
                           SyntaxMessage(9, index_not_name(name_string)[2]))
       ELSE IF error_index = 23
       THEN print_error(Q, sym, is_waveform(SymName(P.symbol))[2],
                        SyntaxMessage(23, 0))
       ELSE print_error(Q, sym, 0, SyntaxMessage(error_index, 0))

(* check_name that also takes a string that is not a name *)
check_name_string(P) ==
    IF SymType(P.symbol) \in {"name", "string"} THEN <<TRUE, P>>
    ELSE <<FALSE, display_syntax_error(P, 9, P.symbol)>>

(* check_name: <<result, parser after the call>> *)
check_name(P) ==
    IF SymType(P.symbol) = "name" THEN <<TRUE, P>>
    ELSE <<FALSE, display_syntax_error(P, 9, P.symbol)>>

IsSeparator(i) == SymType(i) = "comma" \/ SymType(i) = "semi-colon"

(* The resynchronisation loop
     while symbol is not ',' or ';' [and is not the keyword stop]:
         symbol = get_symbol(); if symbol is None: error 22; return
   stop = NoneText for the loops that have no keyword test *)
(* the loop stopping at ';' only *)
RECURSIVE skip_to_semicolon(_, _)
skip_to_semicolon(P, stop) ==
    IF SymType(P.symbol) = "semi-colon"
       \/ (stop # NoneText /\ SymName(P.symbol) = stop)
    THEN P
    ELSE LET Q == get_symbol(P)
         IN IF Q.symbol = None
            THEN display_syntax_error(Q, 22, LastSymbol)
            ELSE skip_to_semicolon(Q, stop)

RECURSIVE skip_to_separator(_, _)
skip_to_separator(P, stop) ==
    IF IsSeparator(P.symbol) \/ (stop # NoneText /\ SymName(P.symbol) = stop)
    THEN P
    ELSE LET Q == get_symbol(P)
         IN IF Q.symbol = None
            THEN display_syntax_error(Q, 22, LastSymbol)
            ELSE skip_to_separator(Q, stop)

(* The resynchronisation loop of the *_list methods
     while symbol is not the keyword stop:
         symbol = get_symbol(); if symbol is None: error 22; return None *)
RECURSIVE skip_to_keyword(_, _)
skip_to_keyword(P, stop) ==
    IF SymName(P.symbol) = stop THEN P
    ELSE LET Q == get_symbol(P)
         IN IF Q.symbol = None
            THEN display_syntax_error(Q, 22, LastSymbol)
            ELSE skip_to_keyword(Q, stop)

AppendDev(P, item) == [P EXCEPT !.dev_list = Append(@, item)]

(* con_list.insert(0, item) *)
PrependCon(P, item) == [P EXCEPT !.con_list = <<item>> \o @]

AppendCon(P, item) == [P EXCEPT !.con_list = Append(@, item)]

AppendMon(P, item) == [P EXCEPT !.mon_list = Append(@, item)]

(* a tail that keeps the item although it reports the missing separator *)
device_end_unmarked(P, dev) ==
    IF IsSeparator(P.symbol) THEN AppendDev(P, dev)
    ELSE skip_to_separator(
             display_syntax_error(AppendDev(P, dev), 19, P.symbol),
             T_CONNECT)

(* The tail shared by the five check_* methods: the symbol after the last
   parameter must be ',' or ';' *)
device_end(P, dev) ==
    IF IsSeparator(P.symbol) THEN AppendDev(P, dev)
    ELSE skip_to_separator(
             display_syntax_error(AppendDev(P, NoneItem), 19, P.symbol),
             T_CONNECT)

ClockRcProperty(i) == SymType(i) = "integer"

(* the switch state tested by its type *)
SwitchPropertyInteger(i) == SymType(i) = "integer"

SwitchProperty(i) == SymName(i) \in {<<"0">>, <<"1">>}

LogicProperty(i) == SymName(i) \in {DecimalText(n) : n \in 1..16}

SiggenProperty(i) == is_waveform(SymName(i))[1]

(* the test a check_* method makes of the property symbol; the method is
   named by the error kind it reports *)
PropertyOk(property_error, i) ==
    CASE property_error = 10 -> ClockRcProperty(i)
      [] property_error = 11 -> SwitchProperty(i)
      [] property_error = 12 -> LogicProperty(i)
      [] property_error = 23 -> SiggenProperty(i)

(* The part shared by check_clock_rc, check_switch, check_logic_device and
   check_siggen: keyword, name, property; property_error is the error kind
   the method reports for a bad property *)
check_three(P, property_error) ==
    LET dev1 == <<P.symbol>>
        P1 == get_symbol(P)
    IN IF P1.symbol = None
       THEN display_syntax_error(AppendDev(P1, NoneItem), 22, LastSymbol)
       ELSE IF IsSeparator(P1.symbol)
       THEN display_syntax_error(AppendDev(P1, NoneItem), 6, P1.symbol)
       ELSE IF ~check_name(P1)[1]
       THEN skip_to_separator(AppendDev(check_name(P1)[2], NoneItem),
                              NoneText)
       ELSE
       LET dev2 == Append(dev1, P1.symbol)
           P2 == get_symbol(P1)
       IN IF P2.symbol = None
          THEN display_syntax_error(AppendDev(P2, NoneItem), 22, LastSymbol)
          ELSE IF IsSeparator(P2.symbol)
          THEN display_syntax_error(AppendDev(P2, NoneItem), 6, P2.symbol)
          ELSE IF ~PropertyOk(property_error, P2.symbol)
          THEN skip_to_separator(
                   display_syntax_error(AppendDev(P2, NoneItem),
                                        property_error, P2.symbol),
                   NoneText)
          ELSE
          LET dev3 == Append(dev2, P2.symbol)
              P3 == get_symbol(P2)
          IN IF P3.symbol = None
             THEN display_syntax_error(AppendDev(P3, NoneItem), 22,
                                       LastSymbol)
             ELSE device_end(P3, dev3)

check_clock_rc(P) == check_three(P, 10)

check_switch(P) == check_three(P, 11)

check_logic_device(P) == check_three(P, 12)

check_siggen(P) == check_three(P, 23)

check_dtype_xor(P) ==
    LET dev1 == <<P.symbol>>
        P1 == get_symbol(P)
    IN IF P1.symbol = None
       THEN display_syntax_error(AppendDev(P1, NoneItem), 22, LastSymbol)
       ELSE IF IsSeparator(P1.symbol)
       THEN display_syntax_error(AppendDev(P1, NoneItem), 7, P1.symbol)
       ELSE IF ~check_name(P1)[1]
       THEN skip_to_separator(AppendDev(check_name(P1)[2], NoneItem),
                              NoneText)
       ELSE
       LET dev2 == Append(dev1, P1.symbol)
           P2 == get_symbol(P1)
       IN IF P2.symbol = None
          THEN display_syntax_error(AppendDev(P2, NoneItem), 22, LastSymbol)
          ELSE device_end(P2, dev2)

device(P) ==
    LET kw == SymName(P.symbol)
    IN IF kw \in {T_CLOCK, T_RC} THEN check_clock_rc(P)
       ELSE IF kw = T_SWITCH THEN check_switch(P)
       ELSE IF kw = T_SIGGEN THEN check_siggen(P)
       ELSE IF kw \in {T_AND, T_NAND, T_OR, T_NOR} THEN check_logic_device(P)
       ELSE IF kw \in {T_XOR, T_DTYPE} THEN check_dtype_xor(P)
       ELSE skip_to_separator(
                display_syntax_error(AppendDev(P, NoneItem), 8, P.symbol),
                NoneText)

connection(P) ==
    IF ~check_name(P)[1]
    THEN skip_to_separator(AppendCon(check_name(P)[2], NoneItem), NoneText)
    ELSE
    LET con1 == <<P.symbol>>
        P1 == get_symbol(P)
    IN IF P1.symbol = None
       THEN display_syntax_error(AppendCon(P1, NoneItem), 22, LastSymbol)
       ELSE
       LET dotted == SymType(P1.symbol) = "dot"
           P2 == IF dotted THEN get_symbol(P1) ELSE P1
           P3 == IF dotted /\ P2.symbol # None THEN get_symbol(P2) ELSE P2
           con3 == IF dotted THEN con1 \o <<P1.symbol, P2.symbol>> ELSE con1
       IN IF dotted /\ P2.symbol = None
          THEN display_syntax_error(AppendCon(P2, NoneItem), 22, LastSymbol)
          ELSE IF dotted /\ SymType(P2.symbol) # "output_pin"
          THEN skip_to_separator(
                   display_syntax_error(AppendCon(P2, NoneItem), 14,
                                        P2.symbol),
                   NoneText)
          ELSE IF dotted /\ P3.symbol = None
          THEN display_syntax_error(AppendCon(P3, NoneItem), 22, LastSymbol)
          ELSE IF SymType(P3.symbol) # "arrow"
          THEN skip_to_separator(
                   display_syntax_error(AppendCon(P3, NoneItem), 15,
                                        P3.symbol),
                   NoneText)
          ELSE
          LET con4 == Append(con3, P3.symbol)
              P4 == get_symbol(P3)
          IN IF P4.symbol = None
             THEN display_syntax_error(AppendCon(P4, NoneItem), 22,
                                       LastSymbol)
             ELSE IF ~check_name(P4)[1]
             THEN skip_to_separator(AppendCon(check_name(P4)[2], NoneItem),
                                    NoneText)
             ELSE
             LET con5 == Append(con4, P4.symbol)
                 P5 == get_symbol(P4)
             IN IF P5.symbol = None
                THEN display_syntax_error(AppendCon(P5, NoneItem), 22,
                                          LastSymbol)
                ELSE IF SymType(P5.symbol) # "dot"
                THEN skip_to_separator(
                         display_syntax_error(AppendCon(P5, NoneItem), 16,
                                              P5.symbol),
                         NoneText)
                ELSE
                LET con6 == Append(con5, P5.symbol)
                    P6 == get_symbol(P5)
                IN IF P6.symbol = None
                   THEN display_syntax_error(AppendCon(P6, NoneItem), 22,
                                             LastSymbol)
                   ELSE IF SymType(P6.symbol) # "input_pin"
                   THEN LET E == get_symbol(
                                   display_syntax_error(
                                       AppendCon(P6, NoneItem), 17,
                                       P6.symbol))
                        IN IF E.symbol = None
                           THEN display_syntax_error(E, 22, LastSymbol)
                           ELSE E
                   ELSE
                   LET con7 == Append(con6, P6.symbol)
                       P7 == get_symbol(P6)
                   IN IF P7.symbol = None
                      THEN display_syntax_error(AppendCon(P7, NoneItem), 22,
                                                LastSymbol)
                      ELSE IF IsSeparator(P7.symbol)
                      THEN AppendCon(P7, con7)
                      ELSE skip_to_separator(
                               display_syntax_error(
                                   AppendCon(P7, NoneItem), 13, P7.symbol),
                               T_MONITOR)

monitor(P) ==
    IF ~check_name(P)[1]
    THEN skip_to_separator(AppendMon(check_name(P)[2], NoneItem), NoneText)
    ELSE
    LET mon1 == <<P.symbol>>
        P1 == get_symbol(P)
    IN IF P1.symbol = None
       THEN display_syntax_error(AppendMon(P1, NoneItem), 22, LastSymbol)
       ELSE IF SymType(P1.symbol) = "comma"
       THEN AppendMon(P1, mon1)
       ELSE
       LET dotted == SymType(P1.symbol) = "dot"
           P2 == IF dotted THEN get_symbol(P1) ELSE P1
           P3 == IF dotted /\ P2.symbol # None THEN get_symbol(P2) ELSE P2
           mon3 == IF dotted THEN mon1 \o <<P1.symbol, P2.symbol>> ELSE mon1
       IN IF dotted /\ P2.symbol = None
          THEN display_syntax_error(AppendMon(P2, NoneItem), 22, LastSymbol)
          ELSE IF dotted /\ SymType(P2.symbol) # "output_pin"
          THEN skip_to_separator(
                   display_syntax_error(AppendMon(P2, NoneItem), 14,
                                        P2.symbol),
                   NoneText)
          ELSE IF dotted /\ P3.symbol = None
          THEN display_syntax_error(AppendMon(P3, NoneItem), 22, LastSymbol)
          ELSE IF IsSeparator(P3.symbol)
          THEN AppendMon(P3, mon3)
          ELSE skip_to_separator(
                   display_syntax_error(AppendMon(P3, NoneItem), 18,
                                        P3.symbol),
                   T_END)

(* Values a *_list method returns: None, or the list *)
ReturnNone == [none |-> TRUE, list |-> <<>>]

ReturnList(list) == [none |-> FALSE, list |-> list]

Return(P, value, next) == [P EXCEPT !.list_ret = value, !.pc = next]

(* device_list accepting an empty list, as connection_list does *)
device_list_begin_empty(P) ==
    LET P1 == get_symbol([P EXCEPT !.dev_list = <<>>])
    IN IF P1.symbol = None
       THEN Return(display_syntax_error(P1, 22, LastSymbol), ReturnNone,
                   "after_device_list")
       ELSE IF SymType(P1.symbol) = "semi-colon"
       THEN LET P2 == get_symbol(P1)
            IN IF P2.symbol = None
               THEN Return(display_syntax_error(P2, 22, LastSymbol),
                           ReturnNone, "after_device_list")
               ELSE Return(P2, ReturnList(P2.dev_list), "after_device_list")
       ELSE [P1 EXCEPT !.pc = "device"]

(* device_list up to its first call of device() *)
device_list_begin(P) ==
    LET P1 == get_symbol([P EXCEPT !.dev_list = <<>>])
    IN IF P1.symbol = None
       THEN Return(display_syntax_error(P1, 22, LastSymbol), ReturnNone,
                   "after_device_list")
       ELSE IF SymType(P1.symbol) = "semi-colon"
       THEN LET P2 == get_symbol(display_syntax_error(P1, 5, P1.symbol))
            IN Return(IF P2.symbol = None
                      THEN display_syntax_error(P2, 22, LastSymbol)
                      ELSE P2,
                      ReturnNone, "after_device_list")
       ELSE [P1 EXCEPT !.pc = "device"]

(* device_list after the ',' loop: the closing ';' *)
device_list_end(P) ==
    IF SymType(P.symbol) = "semi-colon"
    THEN LET P1 == get_symbol(P)
         IN IF P1.symbol = None
            THEN Return(display_syntax_error(P1, 22, LastSymbol), ReturnNone,
                        "after_device_list")
            ELSE IF NoneItem \notin Range(P1.dev_list)
            THEN Return(P1, ReturnList(P1.dev_list), "after_device_list")
            ELSE Return(P1, ReturnNone, "after_device_list")
    ELSE IF SymName(P.symbol) = T_CONNECT
    THEN Return(P, ReturnNone, "after_device_list")
    ELSE Return(skip_to_keyword(
                    display_syntax_error(P, 19, SymbolBefore(P.symbol)),
                    T_CONNECT),
                ReturnNone, "after_device_list")

(* device_list reporting the end of file again after device() met it *)
device_list_next_report(P) ==
    IF P.symbol = None
    THEN Return(display_syntax_error(P, 22, LastSymbol), ReturnNone,
                "after_device_list")
    ELSE IF SymType(P.symbol) = "comma"
    THEN LET P1 == get_symbol(P)
         IN IF P1.symbol = None
            THEN Return(display_syntax_error(P1, 22, LastSymbol), ReturnNone,
                        "after_device_list")
            ELSE IF SymName(P1.symbol) = T_CONNECT
            THEN device_list_end(P1)
            ELSE [P1 EXCEPT !.pc = "device"]
    ELSE device_list_end(P)

(* device_list from the return of a device() call to the next device() call
   or to device_list's own return *)
device_list_next(P) ==
    IF P.symbol = None THEN Return(P, ReturnNone, "after_device_list")
    ELSE IF SymType(P.symbol) = "comma"
    THEN LET P1 == get_symbol(P)
         IN IF P1.symbol = None
            THEN Return(display_syntax_error(P1, 22, LastSymbol), ReturnNone,
                        "after_device_list")
            ELSE IF SymName(P1.symbol) = T_CONNECT
            THEN device_list_end(P1)
            ELSE [P1 EXCEPT !.pc = "device"]
    ELSE device_list_end(P)

connection_list_begin(P) ==
    LET P1 == get_symbol([P EXCEPT !.con_list = <<>>])
    IN IF P1.symbol = None
       THEN Return(display_syntax_error(P1, 22, LastSymbol), ReturnNone,
                   "after_connection_list")
       ELSE IF SymType(P1.symbol) = "semi-colon"
       THEN LET P2 == get_symbol(P1)
            IN IF P2.symbol = None
               THEN Return(display_syntax_error(P2, 22, LastSymbol),
                           ReturnNone, "after_connection_list")
               ELSE Return(P2, ReturnList(P2.con_list),
                           "after_connection_list")
       ELSE [P1 EXCEPT !.pc = "connection"]

connection_list_end(P) ==
    IF SymType(P.symbol) = "semi-colon"
    THEN LET P1 == get_symbol(P)
         IN IF P1.symbol = None
            THEN Return(display_syntax_error(P1, 22, LastSymbol), ReturnNone,
                        "after_connection_list")
            ELSE IF NoneItem \notin Range(P1.con_list)
            THEN Return(P1, ReturnList(P1.con_list), "after_connection_list")
            ELSE Return(P1, ReturnNone, "after_connection_list")
    ELSE IF SymName(P.symbol) = T_MONITOR
    THEN Return(P, ReturnNone, "after_connection_list")
    ELSE Return(skip_to_keyword(
                    display_syntax_error(P, 13, SymbolBefore(P.symbol)),
                    T_MONITOR),
                ReturnNone, "after_connection_list")

connection_list_next(P) ==
    IF P.symbol = None THEN Return(P, ReturnNone, "after_connection_list")
    ELSE IF SymType(P.symbol) = "comma"
    THEN LET P1 == get_symbol(P)
         IN IF P1.symbol = None
            THEN Return(display_syntax_error(P1, 22, LastSymbol), ReturnNone,
                        "after_connection_list")
            ELSE IF SymName(P1.symbol) = T_MONITOR
            THEN connection_list_end(P1)
            ELSE [P1 EXCEPT !.pc = "connection"]
    ELSE connection_list_end(P)

monitor_list_begin(P) ==
    LET P1 == get_symbol([P EXCEPT !.mon_list = <<>>])
    IN IF P1.symbol = None
       THEN Return(display_syntax_error(P1, 22, LastSymbol), ReturnNone,
                   "after_monitor_list")
       ELSE IF SymType(P1.symbol) = "semi-colon"
       THEN LET P2 == get_symbol(P1)
            IN IF P2.symbol = None
               THEN Return(display_syntax_error(P2, 22, LastSymbol),
                           ReturnNone, "after_monitor_list")
               ELSE Return(P2, ReturnList(P2.mon_list), "after_monitor_list")
       ELSE [P1 EXCEPT !.pc = "monitor"]

monitor_list_end(P) ==
    IF SymType(P.symbol) = "semi-colon"
    THEN LET P1 == get_symbol(P)
         IN IF P1.symbol = None
            THEN Return(display_syntax_error(P1, 22, LastSymbol), ReturnNone,
                        "after_monitor_list")
            ELSE IF NoneItem \notin Range(P1.mon_list)
            THEN Return(P1, ReturnList(P1.mon_list), "after_monitor_list")
            ELSE Return(P1, ReturnNone, "after_monitor_list")
    ELSE IF SymName(P.symbol) = T_END
    THEN Return(P, ReturnNone, "after_monitor_list")
    ELSE Return(skip_to_keyword(
                    display_syntax_error(P, 18, SymbolBefore(P.symbol)),
                    T_END),
                ReturnNone, "after_monitor_list")

(* monitor_list without the None test after monitor(): it reads on from the
   rewound cursor *)
monitor_list_next_reread(P) ==
    IF P.symbol = None THEN monitor_list_end(get_symbol(P))
    ELSE IF SymType(P.symbol) = "comma"
    THEN LET P1 == get_symbol(P)
         IN IF P1.symbol = None
            THEN Return(display_syntax_error(P1, 22, LastSymbol), ReturnNone,
                        "after_monitor_list")
            ELSE IF SymName(P1.symbol) = T_END
            THEN monitor_list_end(P1)
            ELSE [P1 EXCEPT !.pc = "monitor"]
    ELSE monitor_list_end(P)

monitor_list_next(P) ==
    IF P.symbol = None THEN Return(P, ReturnNone, "after_monitor_list")
    ELSE IF SymType(P.symbol) = "comma"
    THEN LET P1 == get_symbol(P)
         IN IF P1.symbol = None
            THEN Return(display_syntax_error(P1, 22, LastSymbol), ReturnNone,
                        "after_monitor_list")
            ELSE IF SymName(P1.symbol) = T_END
            THEN monitor_list_end(P1)
            ELSE [P1 EXCEPT !.pc = "monitor"]
    ELSE monitor_list_end(P)

EmptyDict == [keys |-> {}, DEVICES |-> <<>>, CONNECT |-> <<>>, MONITOR |-> <<>>]

ReturnFalse(P) == [P EXCEPT !.dict_ret = "False", !.pc = "network_dict_returned"]

(* network_dict testing that the first symbol is a keyword *)
network_dict_begin_keyword(P) ==
    LET P1 == get_symbol([P EXCEPT !.network_dict = EmptyDict])
    IN IF P1.symbol = None
       THEN ReturnFalse(display_syntax_error(P1, 22, None))
       ELSE
       LET P2 == IF SymType(P1.symbol) # "keyword"
                 THEN display_syntax_error(P1, 1, P1.symbol)
                 ELSE P1
           P3 == get_symbol(P2)
       IN IF P3.symbol = None
          THEN ReturnFalse(display_syntax_error(P3, 22, LastSymbol))
          ELSE [(IF SymType(P3.symbol) # "colon"
                 THEN display_syntax_error(P3, 20, P3.symbol)
                 ELSE P3) EXCEPT !.pc = "device_list"]

(* network_dict up to its call of device_list *)
network_dict_begin(P) ==
    LET P1 == get_symbol([P EXCEPT !.network_dict = EmptyDict])
    IN IF P1.symbol = None
       THEN ReturnFalse(display_syntax_error(P1, 22, None))
       ELSE
       LET P2 == IF SymName(P1.symbol) # T_DEVICES
                 THEN display_syntax_error(P1, 1, P1.symbol)
                 ELSE P1
           P3 == get_symbol(P2)
       IN IF P3.symbol = None
          THEN ReturnFalse(display_syntax_error(P3, 22, LastSymbol))
          ELSE [(IF SymType(P3.symbol) # "colon"
                 THEN display_syntax_error(P3, 20, P3.symbol)
                 ELSE P3) EXCEPT !.pc = "device_list"]

(* The section header  KEYWORD ':'  that network_dict checks before it calls
   the next *_list method *)
section_header(P, keyword, error_index, next) ==
    IF P.symbol = None THEN ReturnFalse(P)
    ELSE
    LET P2 == IF SymName(P.symbol) # keyword
              THEN display_syntax_error(P, error_index, P.symbol)
              ELSE P
        P3 == get_symbol(P2)
    IN IF P3.symbol = None
       THEN ReturnFalse(display_syntax_error(P3, 22, LastSymbol))
       ELSE [(IF SymType(P3.symbol) # "colon"
              THEN display_syntax_error(P3, 20, P3.symbol)
              ELSE P3) EXCEPT !.pc = next]

(* network_dict from the return of device_list to the call of
   connection_list *)
network_dict_connect(P) ==
    section_header(
        IF ~P.list_ret.none
        THEN [P EXCEPT !.network_dict.keys = @ \cup {"DEVICES"},
                       !.network_dict.DEVICES = P.list_ret.list]
        ELSE P,
        T_CONNECT, 2, "connection_list")

(* network_dict from the return of connection_list to the call of
   monitor_list *)
network_dict_monitor(P) ==
    section_header(
        IF ~P.list_ret.none
        THEN [P EXCEPT !.network_dict.keys = @ \cup {"CONNECT"},
                       !.network_dict.CONNECT = P.list_ret.list]
        ELSE P,
        T_MONITOR, 3, "monitor_list")

(* network_dict from the return of monitor_list to its own return *)
network_dict_end(P) ==
    LET P1 == IF ~P.list_ret.none
              THEN [P EXCEPT !.network_dict.keys = @ \cup {"MONITOR"},
                             !.network_dict.MONITOR = P.list_ret.list]
              ELSE P
    IN IF P1.symbol = None THEN ReturnFalse(P1)
       ELSE
       LET P2 == IF SymName(P1.symbol) # T_END
                 THEN display_syntax_error(P1, 4, P1.symbol)
                 ELSE P1
           P3 == get_symbol(P2)
       IN IF P3.symbol = None
          THEN ReturnFalse(display_syntax_error(P3, 21, LastSymbol))
          ELSE
          LET P4 == IF SymType(P3.symbol) # "semi-colon"
                    THEN display_syntax_error(P3, 21, P3.symbol)
                    ELSE P3
          IN IF P4.num_of_errors = 0
             THEN [P4 EXCEPT !.dict_ret = "dict",
                             !.pc = "network_dict_returned"]
             ELSE ReturnFalse(P4)

(***************************************************************************)
(* SemanticErrorHandler                                                    *)
(***************************************************************************)
(* Result codes of the collaborators, named by their category in
   semantic_error_codes; NO_ERROR is any code that is not in the table *)
NO_ERROR == "No error"

DeviceCodes == {"Invalid qualifier", "No qualifier", "Bad device",
                "Qualifier present", "Device present"}

NetworkCodes == {"Input to input", "Output to output", "Input connected",
                 "Port absent", "Device absent"}

MonitorCodes == {"Not output", "Monitor present", "Device absent"}

semantic_error_codes == DeviceCodes \cup NetworkCodes \cup MonitorCodes

SemanticMessage(error_type) == [cat |-> error_type, code |-> 0, sub |-> 0]

(* symbols[k] of an item, k a Python index *)
At(symbols, k) == symbols[k + 1]

(* get_labelled_symbols: the four roles of a connection item (None if absent) *)
get_labelled_symbols(symbols) ==
    IF SymType(At(symbols, 1)) = "dot"
    THEN [first_device |-> At(symbols, 0), first_port |-> At(symbols, 2),
          second_device |-> At(symbols, 4),
          second_port |-> IF SymType(At(symbols, 5)) = "dot"
                          THEN At(symbols, 6) ELSE None]
    ELSE [first_device |-> At(symbols, 0), first_port |-> None,
          second_device |-> At(symbols, 2),
          second_port |-> IF SymType(At(symbols, 3)) = "dot"
                          THEN At(symbols, 4) ELSE None]

(* a display_device_present_error that points at the device keyword *)
display_device_present_error_at_keyword(P, device_name_symbol) ==
    print_error(P, device_name_symbol - 1, 0, SemanticMessage("Device present"))

display_device_present_error(P, device_name_symbol) ==
    print_error(P, device_name_symbol, 0, SemanticMessage("Device present"))

display_input_input_error(P, symbols) ==
    print_error(P, get_labelled_symbols(symbols).first_device, 0,
                SemanticMessage("Input to input"))

display_output_output_error(P, symbols) ==
    print_error(P, get_labelled_symbols(symbols).second_port, 0,
                SemanticMessage("Output to output"))

display_input_connected_error(P, symbols) ==
    print_error(P, get_labelled_symbols(symbols).second_port, 0,
                SemanticMessage("Input connected"))

(* first_bad and second_bad are what the Devices collaborator answers about
   the two sides of the connection: the port is not one of the device's
   ports *)
display_port_absent_error(P, symbols, first_bad, second_bad) ==
    LET L == get_labelled_symbols(symbols)
        msg == SemanticMessage("Port absent")
        first_port_id == IF L.first_port # None
                         THEN list_of_symbols[L.first_port + 1].id
                         ELSE None
        second_port_id == IF L.second_port # None
                          THEN list_of_symbols[L.second_port + 1].id
                          ELSE None
        P1 == IF first_port_id # None /\ first_port_id # 0 /\ first_bad
              THEN print_error(P, L.first_port, 0, msg)
              ELSE P
    IN IF second_port_id # None /\ second_port_id # 0 /\ second_bad
       THEN print_error(P1, L.second_port, 0, msg)
       ELSE P1

(* a display_device_absent_error that reports both sides of a connection
   without asking which device is unknown *)
display_device_absent_error_both(P, symbols, first_bad, second_bad) ==
    LET L == get_labelled_symbols(symbols)
        msg == SemanticMessage("Device absent")
    IN IF (Len(symbols) = 3 /\ SymType(At(symbols, 1)) = "dot")
          \/ Len(symbols) = 1
       THEN print_error(P, At(symbols, 0), 0, msg)
       ELSE print_error(print_error(P, L.first_device, 0, msg),
                        L.second_device, 0, msg)

(* first_bad and second_bad are what devices.get_device answers about the
   two sides of the connection: the device does not exist *)
display_device_absent_error(P, symbols, first_bad, second_bad) ==
    LET L == get_labelled_symbols(symbols)
        msg == SemanticMessage("Device absent")
    IN IF (Len(symbols) = 3 /\ SymType(At(symbols, 1)) = "dot")
          \/ Len(symbols) = 1
       THEN print_error(P, At(symbols, 0), 0, msg)
       ELSE LET P1 == IF first_bad
                      THEN print_error(P, L.first_device, 0, msg)
                      ELSE P
            IN IF second_bad
               THEN print_error(P1, L.second_device, 0, msg)
               ELSE P1

display_not_output_error(P, sym) ==
    print_error(P, sym, 0, SemanticMessage("Not output"))

(* the message of display_input_not_connected_error: devices is the list
   the message is formatted with *)
InputNotConnectedMessage(devices) ==
    [cat |-> "Input not connected", code |-> 0, sub |-> 0, list |-> devices]

(* undriven is the list of <<device name, input name>> of the inputs for
   which network.get_connected_output answers None, in the order of
   devices.find_devices and device.inputs; the list that is formatted holds
   the device name of each *)
display_input_not_connected_error(P, sym, undriven) ==
    LET devices == [i \in 1..Len(undriven) |-> undriven[i][1]]
    IN print_error(P, sym, 0, InputNotConnectedMessage(devices))

(* a display_monitor_present_error that emits nothing *)
display_monitor_present_error_silent(P, output_symbol) == P

display_monitor_present_error(P, output_symbol) ==
    print_error(P, output_symbol, 0, SemanticMessage("Monitor present"))

(* SemanticErrorHandler.print_error *)
semantic_print_error(P, error_type, symbols, first_bad, second_bad) ==
    CASE error_type = "Device present" ->
           display_device_present_error(P, At(symbols, 1))
      [] error_type = "Input to input" ->
           display_input_input_error(P, symbols)
      [] error_type = "Output to output" ->
           display_output_output_error(P, symbols)
      [] error_type = "Input connected" ->
           display_input_connected_error(P, symbols)
      [] error_type = "Port absent" ->
           display_port_absent_error(P, symbols, first_bad, second_bad)
      [] error_type = "Device absent" ->
           display_device_absent_error(P, symbols, first_bad, second_bad)
      [] error_type = "Not output" ->
           display_not_output_error(P, At(symbols, 0))
      [] error_type = "Monitor present" ->
           display_monitor_present_error(P, At(symbols, 0))
      [] OTHER -> P

(* handle_error for which every code of the table is an error *)
handle_error_no_warning(P, unique_error_code, symbols, first_bad, second_bad) ==
    IF unique_error_code \notin semantic_error_codes THEN <<FALSE, P>>
    ELSE <<TRUE, semantic_print_error(P, unique_error_code, symbols,
                                      first_bad, second_bad)>>

(* handle_error: <<fatal, parser after the call>> *)
handle_error(P, unique_error_code, symbols, first_bad, second_bad) ==
    IF unique_error_code \notin semantic_error_codes THEN <<FALSE, P>>
    ELSE LET Q == semantic_print_error(P, unique_error_code, symbols,
                                       first_bad, second_bad)
         IN IF unique_error_code = "Monitor present" THEN <<FALSE, Q>>
            ELSE <<TRUE, Q>>

(***************************************************************************)
(* Definition files (as token texts) the parser is run on                  *)
(***************************************************************************)
MaxDevices == 2
MaxConnections == 2
MaxMonitors == 2

N_a == <<"a">>
N_b == <<"b">>
T_0 == <<"0">>
T_1 == <<"1">>
T_I1 == <<"I","1">>
T_I2 == <<"I","2">>

(* well-formed declarations *)
DeviceItems == {<<T_SWITCH, N_a, T_0>>, <<T_XOR, N_b>>}

ConnectionItems == {<<N_a, T_ARROW, N_b, T_DOT, T_I1>>,
                    <<N_b, T_DOT, T_Q, T_ARROW, N_b, T_DOT, T_I2>>}

MonitorItems == {<<N_a>>, <<N_b, T_DOT, T_QBAR>>}

(* one well-formed declaration per device keyword *)
KeywordItems ==
    {<<T_CLOCK, <<"c","1">>, <<"1","0">>>>, <<T_RC, <<"r","_","c">>, <<"5">>>>,
     <<T_SWITCH, <<"s","w">>, T_1>>, <<T_AND, <<"g">>, <<"2">>>>,
     <<T_NAND, <<"g">>, <<"1","6">>>>, <<T_OR, <<"g">>, T_1>>,
     <<T_NOR, <<"g">>, <<"9">>>>, <<T_SIGGEN, <<"s">>, <<"0","1","1","0">>>>,
     <<T_XOR, <<"x","1">>>>, <<T_DTYPE, <<"d">>>>}

(* the lists of at least lo and at most hi items in which neighbouring items
   differ *)
Lists(Items, lo, hi) ==
    UNION {{l \in [1..k -> Items] : \A i \in 1..(k - 1) : l[i] # l[i + 1]} :
           k \in lo..hi}

(* the items of a list separated by ',' *)
RECURSIVE Join(_)
Join(items) ==
    IF items = <<>> THEN <<>>
    ELSE IF Len(items) = 1 THEN items[1]
    ELSE items[1] \o <<T_COMMA>> \o Join(Tail(items))

Section(keyword, items) == <<keyword, T_COLON>> \o Join(items) \o <<T_SEMI>>

File(devs, cons, mons) ==
    Section(T_DEVICES, devs) \o Section(T_CONNECT, cons)
        \o Section(T_MONITOR, mons) \o <<T_END, T_SEMI>>

(* files that conform to the grammar, with at least one device *)
ValidFiles ==
    {File(d, c, m) : d \in Lists(DeviceItems, 1, MaxDevices),
                     c \in Lists(ConnectionItems, 0, MaxConnections),
                     m \in Lists(MonitorItems, 0, MaxMonitors)}
    \cup {File(<<d>>, <<>>, <<>>) : d \in KeywordItems}

(* every proper prefix of a valid file, the empty file included *)
TruncatedValidFiles ==
    UNION {{SubSeq(f, 1, k) : k \in 0..(Len(f) - 1)} : f \in ValidFiles}

(* token texts used to damage a file *)
Alphabet ==
    {T_DEVICES, T_CONNECT, T_MONITOR, T_END, T_SWITCH, T_XOR, T_CLOCK, T_AND,
     T_SIGGEN, N_a, <<"a","B">>, <<"a","+">>, T_0, T_1, <<"1","7">>,
     <<"0","1">>, T_SEMI, T_COLON, T_COMMA, T_DOT, T_ARROW, T_Q, T_I1,
     <<"=">>}

Replace(f, k, t) == [f EXCEPT ![k] = t]

Delete(f, k) == SubSeq(f, 1, k - 1) \o SubSeq(f, k + 1, Len(f))

Insert(f, k, t) == SubSeq(f, 1, k - 1) \o <<t>> \o SubSeq(f, k, Len(f))

(* the file whose single-token damage is explored exhaustively *)
DamageBase ==
    File(<<<<T_SWITCH, N_a, T_0>>, <<T_XOR, N_b>>>>,
         <<<<N_a, T_ARROW, N_b, T_DOT, T_I1>>,
           <<N_b, T_DOT, T_Q, T_ARROW, N_b, T_DOT, T_I2>>>>,
         <<<<N_a>>, <<N_b, T_DOT, T_QBAR>>>>)

DamagedFiles ==
    {Replace(DamageBase, k, t) : k \in 1..Len(DamageBase), t \in Alphabet}
    \cup {Delete(DamageBase, k) : k \in 1..Len(DamageBase)}
    \cup {Insert(DamageBase, k, t) :
              k \in 1..(Len(DamageBase) + 1), t \in Alphabet}

(* the positions of DamageBase at which a symbol that fits nowhere starts a
   resynchronisation loop: the name of a device, the ',' of the device list,
   the '>' of a connection, the ',' of the connection list, the name of a
   monitor and the ',' of the monitor list *)
ResyncPositions == {4, 6, 13, 17, 28, 29}

(* the files that end after such a symbol, inside the loop it starts or
   after it *)
TruncatedDamagedFiles ==
    UNION {{SubSeq(Replace(DamageBase, k, <<"=">>), 1, n) :
                n \in k..(Len(DamageBase) - 1)} : k \in ResyncPositions}

(* the files that end early: in an error-free text, or after an error, where
   the parser is looking for the symbol to go on from *)
TruncatedFiles == TruncatedValidFiles \cup TruncatedDamagedFiles

(* a valid file whose first symbol is replaced *)
FirstTokens == {T_SWITCH, T_CONNECT, T_END, N_a, T_COLON, T_SEMI, <<"=">>}

WrongStartFiles == {Replace(f, 1, t) : f \in ValidFiles, t \in FirstTokens}

(* device entries that are not a well-formed declaration and contain no
   ',' or ';' *)
MalformedEntries ==
    {<<>>, <<T_SWITCH>>, <<T_SWITCH, N_a>>, <<T_XOR>>,
     <<T_SWITCH, <<"a","B">>, T_0>>, <<T_SWITCH, T_0>>,
     <<T_SWITCH, N_a, <<"2">>>>, <<T_CLOCK, N_a, <<"0","5">>>>,
     <<T_AND, N_a, <<"1","7">>>>, <<T_SIGGEN, N_a, <<"0","2">>>>,
     <<N_a, N_a, T_0>>, <<T_XOR, N_b, T_0>>, <<T_SWITCH, N_a, T_0, N_a>>,
     <<T_DTYPE, N_b, T_DOT, T_Q>>,
     <<T_MONITOR>>, <<T_SWITCH, N_a, T_0, T_END>>,
     <<T_CONNECT>>, <<T_SWITCH, N_a, T_0, T_CONNECT>>}

(* device lists with one entry of Entries at position k among well-formed
   siblings *)
OneMalformed(Entries) ==
    UNION {{SubSeq(d, 1, k - 1) \o <<e>> \o SubSeq(d, k, Len(d)) :
                k \in 1..(Len(d) + 1), e \in Entries} :
           d \in Lists(DeviceItems, 1, MaxDevices)}

MalformedFilesOf(Entries) ==
    {File(d, <<<<N_a, T_ARROW, N_b, T_DOT, T_I1>>>>, <<<<N_a>>>>) :
         d \in OneMalformed(Entries)}

MalformedDeviceFiles == MalformedFilesOf(MalformedEntries)

(* the malformed entries that do not contain the keyword CONNECT *)
EntriesWithoutConnect ==
    {e \in MalformedEntries : \A i \in DOMAIN e : e[i] # T_CONNECT}

MalformedWithoutConnect == MalformedFilesOf(EntriesWithoutConnect)

(* DEVICES: SWITCH switch1, 0; CONNECT: ; MONITOR: switch1; END; *)
N_switch1 == <<"s","w","i","t","c","h","1">>

ScenarioFile ==
    <<T_DEVICES, T_COLON, T_SWITCH, N_switch1, T_COMMA, T_0, T_SEMI,
      T_CONNECT, T_COLON, T_SEMI,
      T_MONITOR, T_COLON, N_switch1, T_SEMI, T_END, T_SEMI>>

(* DEVICES: SWITCH switch1 0; CONNECT: ; MONITOR: switch1; END; *)
ScenarioFileNoComma ==
    File(<<<<T_SWITCH, N_switch1, T_0>>>>, <<>>, <<<<N_switch1>>>>)

(* files whose device list is just ';' *)
NoDeviceFiles ==
    {File(<<>>, c, m) : c \in Lists(ConnectionItems, 0, MaxConnections),
                        m \in Lists(MonitorItems, 0, MaxMonitors)}

(* texts tried as the property of a device *)
PropertyTexts ==
    {T_0, T_1, <<"2">>, <<"1","6">>, <<"1","7">>, <<"0","1">>, <<"1","0">>,
     <<"0","1","1">>, N_a, T_I1, T_SWITCH, T_CONNECT, <<"a","B">>, T_DOT}

PropertyKeywords ==
    {T_CLOCK, T_RC, T_SWITCH, T_AND, T_NAND, T_OR, T_NOR, T_SIGGEN}

(* files whose first device is  KEYWORD a [property]  followed by ';' or by
   ',' and a well-formed device: every keyword with every property text and
   with no property *)
PropertyFiles ==
    {File(<<dev>> \o rest, <<>>, <<>>) :
         dev \in {<<k, N_a, p>> : k \in PropertyKeywords \cup {T_XOR, T_DTYPE},
                                  p \in PropertyTexts}
                 \cup {<<k, N_a>> : k \in PropertyKeywords \cup {T_XOR, T_DTYPE}},
         rest \in {<<>>, <<<<T_XOR, N_b>>>>}}

(* texts that are not of category name, tried where a device name is
   required *)
BadNameTexts ==
    {T_1, <<"a","B">>, <<"a","+">>, <<"A">>, T_0, <<"0","1">>, <<"1","7">>,
     T_I1, T_Q, T_SWITCH, T_CONNECT, T_MONITOR, T_END, T_DOT, T_ARROW,
     T_COLON, <<"=">>, T_COMMA, T_SEMI}

TwoDevices == <<<<T_SWITCH, N_a, T_0>>, <<T_XOR, N_b>>>>

(* the text t in the name position of a three-parameter device, of a
   two-parameter device, of the source and of the destination of a connection
   and of a monitor, in the first item of its list *)
NameInSwitch(t) == File(<<<<T_SWITCH, t, T_0>>, <<T_XOR, N_b>>>>, <<>>, <<>>)

NameInXor(t) == File(<<<<T_XOR, t>>, <<T_SWITCH, N_a, T_0>>>>, <<>>, <<>>)

NameInSource(t) ==
    File(TwoDevices, <<<<t, T_ARROW, N_b, T_DOT, T_I1>>>>, <<>>)

NameInDestination(t) ==
    File(TwoDevices, <<<<N_a, T_ARROW, t, T_DOT, T_I1>>>>, <<>>)

NameInMonitor(t) == File(TwoDevices, <<>>, <<<<t>>>>)

(* the same positions in the item that follows a ',' *)
NameInSecondSwitch(t) ==
    File(<<<<T_XOR, N_b>>, <<T_SWITCH, t, T_0>>>>, <<>>, <<>>)

NameInSecondXor(t) ==
    File(<<<<T_SWITCH, N_a, T_0>>, <<T_XOR, t>>>>, <<>>, <<>>)

NameInSecondSource(t) ==
    File(TwoDevices,
         <<<<N_a, T_ARROW, N_b, T_DOT, T_I1>>,
           <<t, T_ARROW, N_b, T_DOT, T_I2>>>>, <<>>)

NameInSecondDestination(t) ==
    File(TwoDevices,
         <<<<N_a, T_ARROW, N_b, T_DOT, T_I1>>,
           <<N_a, T_ARROW, t, T_DOT, T_I2>>>>, <<>>)

NameInSecondMonitor(t) == File(TwoDevices, <<>>, <<<<N_a>>, <<t>>>>)

(* a position where a device name is required: the file, the Python index
   of the symbol there, the list it is in and whether the item is the first
   of its list *)
NamePosition(f, idx, list, first) ==
    [file |-> f, symbol |-> idx, list |-> list, first |-> first]

NamePositions(t) ==
    {NamePosition(NameInSwitch(t), 3, "SWITCH", TRUE),
     NamePosition(NameInXor(t), 3, "XOR", TRUE),
     NamePosition(NameInSecondSwitch(t), 6, "SWITCH", FALSE),
     NamePosition(NameInSecondXor(t), 7, "XOR", FALSE),
     NamePosition(NameInSource(t), 11, "CONNECT", TRUE),
     NamePosition(NameInDestination(t), 13, "destination", TRUE),
     NamePosition(NameInSecondSource(t), 17, "CONNECT", FALSE),
     NamePosition(NameInSecondDestination(t), 19, "destination", FALSE),
     NamePosition(NameInMonitor(t), 14, "MONITOR", TRUE),
     NamePosition(NameInSecondMonitor(t), 16, "MONITOR", FALSE)}

BadNameFiles ==
    UNION {{p.file : p \in NamePositions(t)} : t \in BadNameTexts}

Inputs ==
    ValidFiles \cup TruncatedFiles \cup DamagedFiles \cup WrongStartFiles
        \cup MalformedDeviceFiles \cup NoDeviceFiles
        \cup {ScenarioFile, ScenarioFileNoComma}
        \cup PropertyFiles \cup BadNameFiles

(***************************************************************************)
(* Parser: build phase                                                     *)
(***************************************************************************)
(* one call of a collaborator: the method, the item it is made for, the ids
   passed, the result it returns, and what devices.get_device answers for the
   two sides of the item when the error display asks (TRUE: not found) *)
Call(method, item, ids, result, sides) ==
    [method |-> method, item |-> item, ids |-> ids, result |-> result,
     sides |-> sides]

NoSides == <<FALSE, FALSE>>

(* a loop that takes the items of the list from its end *)
NextItemReversed(list, index) == list[Len(list) - index]

(* for item in list: the item of the iteration that follows index
   iterations *)
NextItem(list, index) == list[index + 1]

(* if handle_error(...): return False *)
AfterItem(fatal, phase) == IF fatal THEN "returned_false" ELSE phase

SymId(i) == IF i = None THEN None ELSE list_of_symbols[i + 1].id

(* the summary line of parse_network *)
SummaryMessage(n) == [cat |-> "summary", code |-> n, sub |-> 0]

(* parse_network testing the dictionary under construction only *)
parse_network_decide_dict(P) ==
    IF P.network_dict.keys # {}
    THEN [P EXCEPT !.pc = IF "DEVICES" \in P.network_dict.keys
                          THEN "build_devices" ELSE "raised"]
    ELSE [print_error(P, None, 0, SummaryMessage(P.num_of_errors))
              EXCEPT !.pc = "returned_false"]

(* parse_network after network_dict has returned, up to the first step of
   build_devices *)
parse_network_decide(P) ==
    IF P.num_of_errors = 0 /\ P.dict_ret = "dict" /\ P.network_dict.keys # {}
    THEN [P EXCEPT !.pc = IF "DEVICES" \in P.network_dict.keys
                          THEN "build_devices" ELSE "raised"]
    ELSE [print_error(P, None, 0, SummaryMessage(P.num_of_errors))
              EXCEPT !.pc = "returned_false"]

(***************************************************************************)
(* Initial state: Names(), Scanner(path, names), Parser(...) constructed   *)
(***************************************************************************)
Init ==
    /\ source \in Inputs
    /\ names_list = get_symbols(<<>>, <<>>, source).names
    /\ list_of_symbols = get_symbols(<<>>, <<>>, source).symbols
    /\ print_to_gui \in BOOLEAN
    /\ symbol_counter = -1
    /\ printed = <<>>
    /\ error_messages = <<>>
    /\ print_calls = <<>>
    /\ symbol = None
    /\ num_of_errors = 0
    /\ dev_list = <<>>
    /\ con_list = <<>>
    /\ mon_list = <<>>
    /\ list_ret = ReturnNone
    /\ network_dict = EmptyDict
    /\ dict_ret = "pending"
    /\ get_calls = 0
    /\ none_returns = 0
    /\ late_calls = 0
    /\ pc = "parse_network"
    /\ build_index = 0
    /\ collab_calls = <<>>
    /\ ret = "pending"
    /\ input_string = NoneText
    /\ file = <<>>
    /\ error_code_count = 0
    /\ api_calls = <<>>
    /\ interface = GuiInterface
    /\ update_ret = NotLeft
    /\ NoPhaseCalled

(* what the syntax phase leaves alone *)
SyntaxFrame ==
    /\ UNCHANGED <<source, names_list, list_of_symbols, print_to_gui,
                   build_index, collab_calls, ret>>
    /\ UNCHANGED api_vars
    /\ UNCHANGED gui_vars
    /\ UNCHANGED success_vars

(***************************************************************************)
(* Actions of the syntax phase                                             *)
(***************************************************************************)
NetworkDictBegin ==
    /\ pc = "parse_network"
    /\ Set(network_dict_begin(Cur))
    /\ SyntaxFrame

DeviceListBegin ==
    /\ pc = "device_list"
    /\ Set(device_list_begin(Cur))
    /\ SyntaxFrame

Device ==
    /\ pc = "device"
    /\ Set([device(Cur) EXCEPT !.pc = "device_list_next"])
    /\ SyntaxFrame

DeviceListNext ==
    /\ pc = "device_list_next"
    /\ Set(device_list_next(Cur))
    /\ SyntaxFrame

NetworkDictConnect ==
    /\ pc = "after_device_list"
    /\ Set(network_dict_connect(Cur))
    /\ SyntaxFrame

ConnectionListBegin ==
    /\ pc = "connection_list"
    /\ Set(connection_list_begin(Cur))
    /\ SyntaxFrame

Connection ==
    /\ pc = "connection"
    /\ Set([connection(Cur) EXCEPT !.pc = "connection_list_next"])
    /\ SyntaxFrame

ConnectionListNext ==
    /\ pc = "connection_list_next"
    /\ Set(connection_list_next(Cur))
    /\ SyntaxFrame

NetworkDictMonitor ==
    /\ pc = "after_connection_list"
    /\ Set(network_dict_monitor(Cur))
    /\ SyntaxFrame

MonitorListBegin ==
    /\ pc = "monitor_list"
    /\ Set(monitor_list_begin(Cur))
    /\ SyntaxFrame

Monitor ==
    /\ pc = "monitor"
    /\ Set([monitor(Cur) EXCEPT !.pc = "monitor_list_next"])
    /\ SyntaxFrame

MonitorListNext ==
    /\ pc = "monitor_list_next"
    /\ Set(monitor_list_next(Cur))
    /\ SyntaxFrame

NetworkDictEnd ==
    /\ pc = "after_monitor_list"
    /\ Set(network_dict_end(Cur))
    /\ SyntaxFrame

(***************************************************************************)
(* Actions of parse_network and of the build phase                         *)
(***************************************************************************)
BuildFrame ==
    /\ UNCHANGED <<source, names_list, list_of_symbols, print_to_gui>>
    /\ UNCHANGED api_vars
    /\ UNCHANGED gui_vars
    /\ UNCHANGED success_vars

(* the position a phase's outcome leads to *)
Outcome(position) ==
    CASE position = "returned_false" -> "False"
      [] position = "returned_true" -> "True"
      [] position = "raised" -> "raise"
      [] OTHER -> "pending"

Goto(P, position) ==
    /\ Set([P EXCEPT !.pc = IF Outcome(position) = "pending"
                            THEN position ELSE "done"])
    /\ ret' = Outcome(position)

ParseNetworkDecide ==
    /\ pc = "network_dict_returned"
    /\ Goto(parse_network_decide(Cur), parse_network_decide(Cur).pc)
    /\ build_index' = 0
    /\ UNCHANGED collab_calls
    /\ BuildFrame

(* one iteration of build_devices' loop *)
BuildDevice ==
    /\ pc = "build_devices"
    /\ build_index < Len(network_dict.DEVICES)
    /\ \E error_code \in DeviceCodes \cup {NO_ERROR} :
         LET device_item == NextItem(network_dict.DEVICES, build_index)
             device_property == IF Len(device_item) = 3
                                THEN SymName(At(device_item, 2))
                                ELSE NoneText
             H == handle_error(Cur, error_code, device_item, FALSE, FALSE)
         IN /\ collab_calls' =
                   Append(collab_calls,
                          Call("make_device", device_item,
                               <<SymId(At(device_item, 1)),
                                 SymId(At(device_item, 0))>>,
                               error_code, NoSides))
            /\ Goto(H[2], AfterItem(H[1], "build_devices"))
            /\ build_index' = build_index + 1
    /\ BuildFrame

(* build_devices returns True; build_network of src/final/parse.py calls
   build_connections only then (the build_network of src/parse.py, which
   calls it in any case, is BuildNetworkSpec below) *)
BuildConnectionsBegin ==
    /\ pc = "build_devices"
    /\ build_index = Len(network_dict.DEVICES)
    /\ Goto(Cur, IF "CONNECT" \in network_dict.keys
                 THEN "build_connections" ELSE "raised")
    /\ build_index' = 0
    /\ UNCHANGED collab_calls
    /\ BuildFrame

(* the answers devices.get_device can give when a display method asks: only
   display_port_absent_error and display_device_absent_error ask *)
AskedSides(error_code) ==
    IF error_code \in {"Port absent", "Device absent"} THEN BOOLEAN
    ELSE {FALSE}

(* devices.get_device answers the same for the same device id *)
SameAnswer(error_code, L, first_bad, second_bad) ==
    (error_code = "Device absent"
     /\ SymId(L.first_device) = SymId(L.second_device))
    => first_bad = second_bad

(* one iteration of build_connections' loop *)
BuildConnection ==
    /\ pc = "build_connections"
    /\ build_index < Len(network_dict.CONNECT)
    /\ \E error_code \in NetworkCodes \cup {NO_ERROR} :
       \E first_bad \in AskedSides(error_code),
          second_bad \in AskedSides(error_code) :
         LET con == NextItem(network_dict.CONNECT, build_index)
             L == get_labelled_symbols(con)
             H == handle_error(Cur, error_code, con, first_bad, second_bad)
         IN /\ SameAnswer(error_code, L, first_bad, second_bad)
            /\ collab_calls' =
                   Append(collab_calls,
                          Call("make_connection", con,
                               <<SymId(L.first_device), SymId(L.first_port),
                                 SymId(L.second_device),
                                 SymId(L.second_port)>>,
                               error_code, <<first_bad, second_bad>>))
            /\ Goto(H[2], AfterItem(H[1], "build_connections"))
            /\ build_index' = build_index + 1
    /\ BuildFrame

(* the inputs the Network collaborator can report as undriven when
   check_network answers False: at most MaxUndriven of them *)
MaxUndriven == 2

UndrivenInputs == {<<N_a, T_I1>>, <<N_b, T_I1>>, <<N_b, T_I2>>}

UndrivenLists == Lists(UndrivenInputs, 1, MaxUndriven)

(* after the loop of build_connections: check_network (the call record
   keeps, as ids, the inputs then undriven), and build_network's call of
   build_monitors *)
BuildConnectionsCheck ==
    /\ pc = "build_connections"
    /\ build_index = Len(network_dict.CONNECT)
    /\ \E check_network \in BOOLEAN :
       \E undriven \in IF check_network THEN {<<>>} ELSE UndrivenLists :
         LET cons == network_dict.CONNECT
             last == cons[Len(cons)]
         IN /\ collab_calls' =
                   Append(collab_calls,
                          Call("check_network", <<>>, undriven,
                               IF check_network THEN "True" ELSE "False",
                               NoSides))
            /\ IF check_network
               THEN Goto(Cur, IF "MONITOR" \in network_dict.keys
                              THEN "build_monitors" ELSE "raised")
               ELSE IF cons = <<>>
               THEN Goto(Cur, "raised")
               ELSE Goto(display_input_not_connected_error(
                             Cur, last[Len(last)], undriven),
                         "returned_false")
    /\ build_index' = 0
    /\ BuildFrame

(* one iteration of build_monitors' loop *)
BuildMonitor ==
    /\ pc = "build_monitors"
    /\ build_index < Len(network_dict.MONITOR)
    /\ \E error_code \in MonitorCodes \cup {NO_ERROR} :
         LET mon == NextItem(network_dict.MONITOR, build_index)
             port == IF Len(mon) = 3 THEN At(mon, 2) ELSE None
             H == handle_error(Cur, error_code, mon, FALSE, FALSE)
         IN /\ collab_calls' =
                   Append(collab_calls,
                          Call("make_monitor", mon,
                               <<SymId(At(mon, 0)), SymId(port)>>,
                               error_code, NoSides))
            /\ Goto(H[2], AfterItem(H[1], "build_monitors"))
            /\ build_index' = build_index + 1
    /\ BuildFrame

(* build_monitors, build_network and parse_network return True *)
BuildMonitorsReturn ==
    /\ pc = "build_monitors"
    /\ build_index = Len(network_dict.MONITOR)
    /\ Goto(Cur, "returned_true")
    /\ UNCHANGED <<build_index, collab_calls>>
    /\ BuildFrame

(* GuiInterface.update_network, from the return of new_parser.parse_network()
   on: the scanner of the run is the new_scanner, which update_network has put
   in the embedded mode; an exception of parse_network is not caught and
   leaves update_network before any assignment *)
UpdateNetwork ==
    /\ pc = "done"
    /\ print_to_gui
    /\ update_ret = NotLeft
    /\ IF ret = "raise"
       THEN /\ update_ret' = Raise
            /\ UNCHANGED interface
       ELSE LET after == update_network(interface, ret = "True",
                                        error_messages)
            IN /\ interface' = after.attributes
               /\ update_ret' = after.returned
    /\ UNCHANGED <<source, names_list, list_of_symbols, print_to_gui,
                   symbol_counter, printed, error_messages, print_calls,
                   symbol, num_of_errors, dev_list, con_list, mon_list,
                   list_ret, network_dict, dict_ret, get_calls, none_returns,
                   late_calls, pc, build_index, collab_calls, ret>>
    /\ UNCHANGED api_vars
    /\ UNCHANGED success_vars

Next ==
    \/ NetworkDictBegin
    \/ DeviceListBegin
    \/ Device
    \/ DeviceListNext
    \/ NetworkDictConnect
    \/ ConnectionListBegin
    \/ Connection
    \/ ConnectionListNext
    \/ NetworkDictMonitor
    \/ MonitorListBegin
    \/ Monitor
    \/ MonitorListNext
    \/ NetworkDictEnd
    \/ ParseNetworkDecide
    \/ BuildDevice
    \/ BuildConnectionsBegin
    \/ BuildConnection
    \/ BuildConnectionsCheck
    \/ BuildMonitor
    \/ BuildMonitorsReturn
    \/ UpdateNetwork

Spec == Init /\ [][Next]_vars

(***************************************************************************)
(* Helpers of the properties                                               *)
(***************************************************************************)
(* network_dict has returned *)
Returned == dict_ret # "pending"

(* what has been emitted, in the mode the scanner is in *)
Emitted == IF print_to_gui THEN error_messages ELSE printed

(* 1-based position of the header of a section: the first occurrence, past
   the first symbol, of the keyword followed by ':' *)
IsHeader(i, text) == source[i] = text /\ source[i + 1] = T_COLON

PosOf(text) ==
    CHOOSE i \in 2..(Len(source) - 1) :
        /\ IsHeader(i, text)
        /\ \A j \in 2..(i - 1) : ~IsHeader(j, text)

(* the runs of symbols (Python indices) between the commas of the 1-based
   positions lo..hi of the file *)
RECURSIVE Runs(_, _)
Runs(lo, hi) ==
    LET commas == {i \in lo..hi : source[i] = T_COMMA}
    IN IF commas = {} THEN <<[k \in 1..(hi - lo + 1) |-> lo + k - 2]>>
       ELSE LET c == CHOOSE i \in commas : \A j \in commas : i <= j
            IN <<[k \in 1..(c - lo) |-> lo + k - 2]>> \o Runs(c + 1, hi)

(* the declarations of a section whose body is at positions lo..hi *)
Declared(lo, hi) == IF lo > hi THEN <<>> ELSE Runs(lo, hi)

DeclaredDevices == Declared(3, PosOf(T_CONNECT) - 2)

DeclaredConnections == Declared(PosOf(T_CONNECT) + 2, PosOf(T_MONITOR) - 2)

(* a complete file ends with END ; *)
DeclaredMonitors == Declared(PosOf(T_MONITOR) + 2, Len(source) - 3)

(* the texts of an item *)
ItemTexts(item) == [k \in DOMAIN item |-> source[item[k] + 1]]

(* the diagnostics submitted by the syntax phase *)
IsSyntax(d) == d.message.cat = "syntax"

SyntaxCalls == SelectSeq(print_calls, IsSyntax)

AllKeys == {"DEVICES", "CONNECT", "MONITOR"}

EndOfFile == Diagnostic(LastSymbol, 0, SyntaxMessage(22, 0))

(***************************************************************************)
(* Properties                                                              *)
(***************************************************************************)
(* C1: network_dict returns the dictionary iff num_of_errors is 0 when it
   returns; on every path that recorded a syntax error it returns False. *)
C1_DictIffNoErrors ==
    Returned => ((dict_ret = "dict") <=> (num_of_errors = 0))

C1_Witness ==
    /\ dict_ret = "False"
    /\ none_returns = 1
    /\ num_of_errors = 1
    /\ Len(source) > 5

(* C2: when the syntax phase recorded an error, no collaborator call is ever
   made and parse_network returns False. *)
C2_NoBuildOnErrors ==
    num_of_errors > 0 =>
        /\ collab_calls = <<>>
        /\ pc \notin {"build_devices", "build_connections", "build_monitors"}
        /\ pc = "done" => ret = "False"

C2_Witness ==
    /\ pc = "done"
    /\ ret = "False"
    /\ num_of_errors > 1
    /\ network_dict.keys # {}

(* C3: for a file that conforms to the grammar (at least one device), zero
   errors are recorded and the DEVICES, CONNECT and MONITOR lists hold exactly
   the declarations of their section, in source order, each item being the
   declaration's own symbols without the separators. *)
C3_ValidFileItems ==
    (source \in ValidFiles /\ Returned) =>
        /\ num_of_errors = 0
        /\ SyntaxCalls = <<>>
        /\ dict_ret = "dict"
        /\ network_dict.keys = AllKeys
        /\ network_dict.DEVICES = DeclaredDevices
        /\ network_dict.CONNECT = DeclaredConnections
        /\ network_dict.MONITOR = DeclaredMonitors

C3_Witness ==
    /\ source \in ValidFiles
    /\ dict_ret = "dict"
    /\ Len(network_dict.DEVICES) = 2
    /\ Len(network_dict.CONNECT) = 2
    /\ Len(network_dict.MONITOR) = 2
    /\ network_dict.CONNECT[1] # network_dict.CONNECT[2]

(* the non-empty proper prefixes of valid files *)
CutFiles == TruncatedValidFiles \ {<<>>}

(* C4 as claimed: a valid file cut after any non-empty proper prefix gives
   exactly one diagnostic, kind 22 with arrow offset 0 at the last symbol, and
   num_of_errors = 1, wherever the cut is. *)
C4_Claimed ==
    (source \in CutFiles /\ Returned) =>
        /\ SyntaxCalls = <<EndOfFile>>
        /\ num_of_errors = 1

(* C4 amended: the single diagnostic is of kind 22, except that a cut right
   after END gives the single diagnostic of kind 21; in both cases it has
   arrow offset 0, is located at the last symbol, and num_of_errors = 1. *)
C4_TruncatedFile ==
    (source \in CutFiles /\ Returned) =>
        /\ num_of_errors = 1
        /\ SyntaxCalls =
              <<Diagnostic(LastSymbol, 0,
                           SyntaxMessage(IF source[Len(source)] = T_END
                                         THEN 21 ELSE 22, 0))>>

C4_Witness ==
    /\ source \in CutFiles
    /\ Returned
    /\ SyntaxCalls = <<EndOfFile>>
    /\ con_list = <<NoneItem>>

(* the emitted diagnostics that report the end of input: kind 22, and kind
   21 when the input ended right after END *)
EndOfInputReports ==
    {i \in DOMAIN Emitted :
        \/ Emitted[i].message.code = 22
        \/ (Emitted[i].message.code = 21 /\ none_returns > 0)}

(* what C5 states of a run: no get_symbol call after one that returned None,
   and one report of the end of input when the input ended *)
StoppedAtEndOfInput ==
    /\ late_calls = 0
    /\ none_returns <= 1
    /\ Cardinality(EndOfInputReports) = none_returns

(* the input ended inside a resynchronisation loop *)
EndedInLoop ==
    /\ source \in TruncatedDamagedFiles
    /\ none_returns = 1
    /\ Len(SyntaxCalls) > 1

(* C5: after get_symbol has returned None no further get_symbol call is made
   during the run, and the end of input is reported exactly once, whatever
   the file and wherever it ends. *)
C5_Claimed == StoppedAtEndOfInput

(* C6: when the syntax phase ends with N > 0 errors, parse_network emits one
   summary line stating N before it returns False. *)
C6_SummaryEmitted ==
    (pc = "done" /\ num_of_errors > 0) =>
        \E i \in DOMAIN Emitted :
            Emitted[i].message = SummaryMessage(num_of_errors)


(* what C7 states of a file with one malformed device entry: a placeholder
   at its position, every sibling captured as its own item, no diagnostic
   located in the CONNECT, MONITOR or END sections, whose lists are
   accepted *)
OneMalformedHandled ==
    /\ Len(dev_list) = Len(DeclaredDevices)
    /\ \A j \in DOMAIN dev_list :
          dev_list[j] = IF ItemTexts(DeclaredDevices[j]) \in DeviceItems
                        THEN DeclaredDevices[j]
                        ELSE NoneItem
    /\ Cardinality({j \in DOMAIN dev_list : dev_list[j] = NoneItem}) = 1
    /\ \A i \in DOMAIN SyntaxCalls :
          SyntaxCalls[i].symbol < PosOf(T_CONNECT) - 1
    /\ network_dict.keys = {"CONNECT", "MONITOR"}
    /\ network_dict.CONNECT = DeclaredConnections
    /\ network_dict.MONITOR = DeclaredMonitors

(* C7 as claimed: for every device list with exactly one malformed entry
   among well-formed siblings the list holds a None placeholder at that
   entry's position and every sibling as its own item, and CONNECT, MONITOR
   and END are then checked without any error recorded for them. *)
C7_Claimed ==
    (source \in MalformedDeviceFiles /\ Returned) => OneMalformedHandled

(* C7 amended: the same, provided the malformed entry does not contain the
   keyword CONNECT. *)
C7_OneMalformedDevice ==
    (source \in MalformedWithoutConnect /\ Returned) => OneMalformedHandled

C7_Witness ==
    /\ source \in MalformedWithoutConnect
    /\ Returned
    /\ Len(dev_list) = 3
    /\ dev_list[1] # NoneItem
    /\ dev_list[2] = NoneItem
    /\ dev_list[3] # NoneItem
    /\ SyntaxCalls # <<>>
    /\ SyntaxCalls[1].message.code = 11

(* C8: for an otherwise valid file whose first symbol is not DEVICES exactly
   one diagnostic is submitted, kind 1 at symbol 0, num_of_errors = 1, and
   the rest of the file is parsed without further errors. *)
C8_WrongStart ==
    (source \in WrongStartFiles /\ Returned) =>
        /\ SyntaxCalls = <<Diagnostic(0, 0, SyntaxMessage(1, 0))>>
        /\ num_of_errors = 1
        /\ network_dict.keys = AllKeys
        /\ network_dict.DEVICES = DeclaredDevices
        /\ network_dict.CONNECT = DeclaredConnections
        /\ network_dict.MONITOR = DeclaredMonitors

C8_Witness ==
    /\ source \in WrongStartFiles
    /\ source[1] = T_SWITCH
    /\ Returned
    /\ num_of_errors = 1
    /\ Len(network_dict.CONNECT) = 1

(* the outcome the scenario describes: no error, one SWITCH device switch1
   with property 0, no connection, one monitor on switch1 *)
ScenarioOutcome ==
    /\ num_of_errors = 0
    /\ dict_ret = "dict"
    /\ network_dict.keys = AllKeys
    /\ Len(network_dict.DEVICES) = 1
    /\ ItemTexts(network_dict.DEVICES[1]) = <<T_SWITCH, N_switch1, T_0>>
    /\ network_dict.CONNECT = <<>>
    /\ Len(network_dict.MONITOR) = 1
    /\ ItemTexts(network_dict.MONITOR[1]) = <<N_switch1>>

(* C9 as claimed: DEVICES: SWITCH switch1, 0; CONNECT: ; MONITOR: switch1;
   END; parses with zero errors into one SWITCH device switch1 with property
   0, no connection and one monitor on switch1. *)
C9_Claimed == (source = ScenarioFile /\ Returned) => ScenarioOutcome

(* C9 amended: the file DEVICES: SWITCH switch1 0; CONNECT: ; MONITOR:
   switch1; END; (no comma between the device name and its property) parses
   with zero errors into one SWITCH device switch1 with property 0, no
   connection and one monitor on switch1. *)
C9_Scenario == (source = ScenarioFileNoComma /\ Returned) => ScenarioOutcome

C9_Witness ==
    /\ source = ScenarioFileNoComma
    /\ dict_ret = "dict"
    /\ network_dict.DEVICES = << <<2, 3, 4>> >>

(* C10 as claimed: a file whose device list is just ';' is accepted with zero
   syntax errors and an empty DEVICES list. *)
C10_Claimed ==
    (source \in NoDeviceFiles /\ Returned) =>
        /\ num_of_errors = 0
        /\ dict_ret = "dict"
        /\ "DEVICES" \in network_dict.keys
        /\ network_dict.DEVICES = <<>>

(* C10 amended: the device list may not be empty: for a file whose device
   list is just ';' exactly one syntax error is recorded, kind 5 located at
   that ';', and network_dict returns False without a DEVICES list; the
   connection and monitor lists of the file, empty or not, are accepted. *)
C10_NoDevices ==
    (source \in NoDeviceFiles /\ Returned) =>
        /\ SyntaxCalls = <<Diagnostic(2, 0, SyntaxMessage(5, 0))>>
        /\ num_of_errors = 1
        /\ dict_ret = "False"
        /\ network_dict.keys = {"CONNECT", "MONITOR"}
        /\ network_dict.CONNECT = DeclaredConnections
        /\ network_dict.MONITOR = DeclaredMonitors

C10_Witness ==
    /\ source \in NoDeviceFiles
    /\ Returned
    /\ num_of_errors = 1
    /\ network_dict.CONNECT = <<>>
    /\ network_dict.MONITOR = <<>>
    /\ "CONNECT" \in network_dict.keys

(* the shape C11 states for a keyword k and a property text p (NoneText
   when the declaration has no property) *)
ShapeOk(k, p) ==
    CASE k \in {T_CLOCK, T_RC} ->
           /\ p # NoneText
           /\ \A i \in DOMAIN p : p[i] \in Digits
           /\ p[1] # "0"
      [] k = T_SWITCH -> p \in {<<"0">>, <<"1">>}
      [] k \in {T_AND, T_NAND, T_OR, T_NOR} ->
           p \in {<<"1">>, <<"2">>, <<"3">>, <<"4">>, <<"5">>, <<"6">>,
                  <<"7">>, <<"8">>, <<"9">>, <<"1","0">>, <<"1","1">>,
                  <<"1","2">>, <<"1","3">>, <<"1","4">>, <<"1","5">>,
                  <<"1","6">>}
      [] k = T_SIGGEN ->
           /\ p # NoneText
           /\ \A i \in DOMAIN p : p[i] \in {"0", "1"}
      [] k \in {T_XOR, T_DTYPE} -> p = NoneText

(* the error kind of the property of the keywords that take one *)
PropertyKind(k) ==
    CASE k \in {T_CLOCK, T_RC} -> 10
      [] k = T_SWITCH -> 11
      [] k \in {T_AND, T_NAND, T_OR, T_NOR} -> 12
      [] k = T_SIGGEN -> 23

PropertyKinds == {PropertyKind(k) : k \in PropertyKeywords}

(* the first declaration of a property file has been parsed: its keyword,
   its property text (NoneText when the name is followed by ',' or ';') and
   the item it is when accepted *)
DeclarationParsed == source \in PropertyFiles /\ dev_list # <<>>

DeclaredKeyword == source[3]

HasProperty == source[5] \notin {T_COMMA, T_SEMI}

DeclaredProperty == IF HasProperty THEN source[5] ELSE NoneText

DeclaredItem == IF HasProperty THEN <<2, 3, 4>> ELSE <<2, 3>>

Accepted == dev_list[1] = DeclaredItem /\ SyntaxCalls = <<>>

(* a None placeholder and exactly one error, of kind error_index, located at
   the symbol that follows the name *)
RejectedWith(error_index) ==
    /\ dev_list[1] = NoneItem
    /\ Len(SyntaxCalls) = 1
    /\ SyntaxCalls[1].symbol = 4
    /\ SyntaxCalls[1].message.code = error_index
    /\ num_of_errors = 1

(* C11 as claimed: a device declaration KEYWORD name [property] followed by
   ',' or ';' is appended as an item without any error iff it matches its
   keyword's shape; every other property yields a None placeholder and
   exactly one error of the keyword's property kind, which is one of 10, 11,
   12 and 23. *)
C11_Claimed ==
    DeclarationParsed =>
        /\ Accepted <=> ShapeOk(DeclaredKeyword, DeclaredProperty)
        /\ (HasProperty /\ ~ShapeOk(DeclaredKeyword, DeclaredProperty)) =>
              /\ \E error_index \in PropertyKinds : RejectedWith(error_index)
              /\ DeclaredKeyword \in PropertyKeywords
                 => RejectedWith(PropertyKind(DeclaredKeyword))

(* the kind of the one error of a declaration that does not match the shape
   of its keyword k: 19 for a property given to XOR or DTYPE, 6 for a
   property missing, the keyword's property kind for a property of another
   form *)
RejectionKind(k, p) ==
    IF k \in {T_XOR, T_DTYPE} THEN 19
    ELSE IF p = NoneText THEN 6
    ELSE PropertyKind(k)

(* the keyword CONNECT after the name of an XOR or a DTYPE: check_dtype_xor
   reports it and device_list takes it for the end of the list *)
EndsDeviceList(k, p) == k \in {T_XOR, T_DTYPE} /\ p = T_CONNECT

(* C11 amended: a device declaration KEYWORD name [property] followed by
   ',' or ';' is appended as an item without any error iff it matches its
   keyword's shape; every other declaration yields a None placeholder and
   exactly one error, located at the symbol that follows the name: of the
   keyword's property kind (10, 11, 12 or 23) for a property of another
   form, of kind 6 when the property of such a keyword is missing, of kind 19
   for a property given to XOR or DTYPE. When that property is the keyword
   CONNECT the error of kind 19 is the first of several: the parse of the
   connections goes on from that keyword. *)
C11_DeviceShapes ==
    DeclarationParsed =>
        IF ShapeOk(DeclaredKeyword, DeclaredProperty) THEN Accepted
        ELSE IF EndsDeviceList(DeclaredKeyword, DeclaredProperty)
        THEN /\ dev_list[1] = NoneItem
             /\ SyntaxCalls # <<>>
             /\ SyntaxCalls[1] = Diagnostic(4, 0, SyntaxMessage(19, 0))
             /\ Returned => Len(SyntaxCalls) > 1
        ELSE RejectedWith(RejectionKind(DeclaredKeyword, DeclaredProperty))

(* AND a 17 is rejected with kind 12, the sibling that follows is accepted *)
C11_Witness ==
    /\ source \in PropertyFiles
    /\ source[3] = T_AND
    /\ source[5] = <<"1","7">>
    /\ Returned
    /\ dev_list = <<NoneItem, <<6, 7>>>>
    /\ SyntaxCalls = <<Diagnostic(4, 0, SyntaxMessage(12, 0))>>
    /\ num_of_errors = 1

(* exactly one diagnostic is located at symbol idx, whose text is t: kind 9
   with the offset and the subcode of index_not_name(t) *)
NameReported(idx, t) ==
    LET at == {i \in DOMAIN SyntaxCalls : SyntaxCalls[i].symbol = idx}
    IN /\ Cardinality(at) = 1
       /\ \A i \in at :
            /\ SyntaxCalls[i] =
                   Diagnostic(idx, index_not_name(t)[1],
                              SyntaxMessage(9, index_not_name(t)[2]))
            /\ t[1] \in Digits =>
                   /\ SyntaxCalls[i].index_of_arrow = 0
                   /\ SyntaxCalls[i].message.sub = 1

(* the diagnostics located at symbol idx *)
DiagnosticsAt(idx) ==
    {i \in DOMAIN SyntaxCalls : SyntaxCalls[i].symbol = idx}

(* exactly one diagnostic is located at symbol idx, and it is d *)
OnlyAt(idx, d) ==
    /\ Cardinality(DiagnosticsAt(idx)) = 1
    /\ \A i \in DiagnosticsAt(idx) : SyntaxCalls[i] = d

(* a name is required at the position when the text t stands there: a ';'
   in the place of the first source or the first monitor is the empty list *)
NameRequired(p, t) ==
    ~(p.first /\ p.list \in {"CONNECT", "MONITOR"} /\ t = T_SEMI)

(* C12 as claimed: whenever a symbol that is not of category name appears
   where a device name is required (device, connection or monitor), exactly
   one diagnostic is submitted for it, located at that symbol, with the arrow
   offset and the kind-9 subcode that index_not_name gives for its text. *)
C12_Claimed ==
    Returned =>
        \A t \in BadNameTexts :
            \A p \in NamePositions(t) :
                (source = p.file /\ NameRequired(p, t))
                => NameReported(p.symbol, t)

(* a ',' or ';' in the name position of a device declaration: the check_*
   methods test for it before they call check_name *)
ParameterMissing(p, t) ==
    p.list \in {"SWITCH", "XOR"} /\ t \in {T_COMMA, T_SEMI}

(* the keyword of the section that follows, directly after the ',' of a
   connection list or of a monitor list: connection_list and monitor_list
   leave their loop *)
EndsList(p, t) ==
    /\ ~p.first
    /\ \/ p.list = "CONNECT" /\ t = T_MONITOR
       \/ p.list = "MONITOR" /\ t = T_END

(* C12 amended: the same, with two exceptions. In a device declaration a ','
   or ';' in the name position is reported once, at that symbol with arrow
   offset 0, as a wrong number of parameters (kind 6, or kind 7 for XOR and
   DTYPE). The keyword MONITOR directly after the ',' of a connection list
   and the keyword END directly after the ',' of a monitor list end the list
   and no diagnostic is located at them. *)
C12_NameDiagnostic ==
    Returned =>
        \A t \in BadNameTexts :
            \A p \in NamePositions(t) :
                (source = p.file /\ NameRequired(p, t))
                => IF ParameterMissing(p, t)
                   THEN OnlyAt(p.symbol,
                               Diagnostic(p.symbol, 0,
                                          SyntaxMessage(IF p.list = "XOR"
                                                        THEN 7 ELSE 6, 0)))
                   ELSE IF EndsList(p, t)
                   THEN DiagnosticsAt(p.symbol) = {}
                   ELSE NameReported(p.symbol, t)

(* 'aB' as the destination of the second connection: one diagnostic, at the
   symbol, arrow under offset 1, subcode 3 *)
C12_Witness ==
    /\ source = NameInSecondDestination(<<"a","B">>)
    /\ Returned
    /\ SyntaxCalls = <<Diagnostic(19, 1, SyntaxMessage(9, 3))>>
    /\ con_list = <<<<11, 12, 13, 14, 15>>, NoneItem>>

(***************************************************************************)
(* build_network of src/parse.py, the parser guiint.py imports             *)
(***************************************************************************)
(* the files whose dictionaries build_network is given: error-free files of
   one device, one connection and one monitor, of two devices, and of no
   connection *)
OneOfEach ==
    File(<<<<T_XOR, N_b>>>>,
         <<<<N_b, T_DOT, T_Q, T_ARROW, N_b, T_DOT, T_I2>>>>,
         <<<<N_b, T_DOT, T_QBAR>>>>)

TwoDevicesFile ==
    File(TwoDevices, <<<<N_a, T_ARROW, N_b, T_DOT, T_I1>>>>, <<<<N_a>>>>)

BuildFiles == {OneOfEach, TwoDevicesFile, ScenarioFileNoComma}

(* a list of items built by appending, as the syntax phase builds it *)
RECURSIVE Appended(_)
Appended(list) ==
    IF list = <<>> THEN <<>>
    ELSE Append(Appended(SubSeq(list, 1, Len(list) - 1)), list[Len(list)])

ListOfItems(list) == Appended([i \in DOMAIN list |-> Appended(list[i])])

(* Scanner.get_symbols over the texts, going on from the names and symbols
   S: the second half of the texts is scanned once the first half has been *)
RECURSIVE Scanned(_, _)
Scanned(S, texts) ==
    IF Len(texts) <= 1 THEN get_symbols(S.names, S.symbols, texts)
    ELSE LET half == Len(texts) \div 2
             T == Scanned(S, SubSeq(texts, 1, half))
         IN IF Len(T.symbols) = Len(S.symbols) + half
            THEN Scanned(T, SubSeq(texts, half + 1, Len(texts)))
            ELSE T

(* the state in which parse_network of src/parse.py calls build_network:
   network_dict has read the whole of an error-free file and returned the
   dictionary of its declarations *)
BuildNetworkInit ==
    /\ source \in BuildFiles
    /\ names_list = Scanned(get_symbols(<<>>, <<>>, <<>>), source).names
    /\ list_of_symbols = Scanned(get_symbols(<<>>, <<>>, <<>>), source).symbols
    /\ print_to_gui \in BOOLEAN
    /\ symbol_counter = Len(source) - 1
    /\ printed = <<>>
    /\ error_messages = <<>>
    /\ print_calls = <<>>
    /\ symbol = Len(source) - 1
    /\ num_of_errors = 0
    /\ dev_list = ListOfItems(DeclaredDevices)
    /\ con_list = ListOfItems(DeclaredConnections)
    /\ mon_list = ListOfItems(DeclaredMonitors)
    /\ list_ret = ReturnList(mon_list)
    /\ network_dict = [keys |-> AllKeys, DEVICES |-> dev_list,
                       CONNECT |-> con_list, MONITOR |-> mon_list]
    /\ dict_ret = "dict"
    /\ get_calls = Len(source)
    /\ none_returns = 0
    /\ late_calls = 0
    /\ pc = "build_devices"
    /\ build_index = 0
    /\ collab_calls = <<>>
    /\ ret = "pending"
    /\ input_string = NoneText
    /\ file = <<>>
    /\ error_code_count = 0
    /\ api_calls = <<>>
    /\ interface = GuiInterface
    /\ update_ret = NotLeft
    /\ NoPhaseCalled

BuildNetworkFrame ==
    /\ UNCHANGED <<source, names_list, list_of_symbols, print_to_gui>>
    /\ UNCHANGED api_vars
    /\ UNCHANGED gui_vars

(* a phase returns value and build_network calls the phase that follows *)
Success(value) == IF value THEN "True" ELSE "False"

(* all([devices_success, connections_success, monitors_success]) *)
all(values) == \A i \in DOMAIN values : values[i] = "True"

(* one iteration of build_devices' loop; a fatal result returns False to
   build_network, which goes on with build_connections *)
BuildNetworkDevice ==
    /\ pc = "build_devices"
    /\ build_index < Len(network_dict.DEVICES)
    /\ \E error_code \in DeviceCodes \cup {NO_ERROR} :
         LET device_item == NextItem(network_dict.DEVICES, build_index)
             H == handle_error(Cur, error_code, device_item, FALSE, FALSE)
         IN /\ collab_calls' =
                   Append(collab_calls,
                          Call("make_device", device_item,
                               <<SymId(At(device_item, 1)),
                                 SymId(At(device_item, 0))>>,
                               error_code, NoSides))
            /\ IF H[1]
               THEN /\ Goto(H[2], "build_connections")
                    /\ devices_success' = Success(FALSE)
                    /\ build_index' = 0
               ELSE /\ Goto(H[2], "build_devices")
                    /\ UNCHANGED devices_success
                    /\ build_index' = build_index + 1
    /\ UNCHANGED <<connections_success, monitors_success>>
    /\ BuildNetworkFrame

(* build_devices returns True *)
BuildNetworkDevicesReturn ==
    /\ pc = "build_devices"
    /\ build_index = Len(network_dict.DEVICES)
    /\ Goto(Cur, "build_connections")
    /\ devices_success' = Success(TRUE)
    /\ build_index' = 0
    /\ UNCHANGED <<collab_calls, connections_success, monitors_success>>
    /\ BuildNetworkFrame

(* one iteration of build_connections' loop *)
BuildNetworkConnection ==
    /\ pc = "build_connections"
    /\ build_index < Len(network_dict.CONNECT)
    /\ \E error_code \in NetworkCodes \cup {NO_ERROR} :
       \E first_bad \in AskedSides(error_code),
          second_bad \in AskedSides(error_code) :
         LET con == NextItem(network_dict.CONNECT, build_index)
             L == get_labelled_symbols(con)
             H == handle_error(Cur, error_code, con, first_bad, second_bad)
         IN /\ SameAnswer(error_code, L, first_bad, second_bad)
            /\ collab_calls' =
                   Append(collab_calls,
                          Call("make_connection", con,
                               <<SymId(L.first_device), SymId(L.first_port),
                                 SymId(L.second_device),
                                 SymId(L.second_port)>>,
                               error_code, <<first_bad, second_bad>>))
            /\ IF H[1]
               THEN /\ Goto(H[2], "build_monitors")
                    /\ connections_success' = Success(FALSE)
                    /\ build_index' = 0
               ELSE /\ Goto(H[2], "build_connections")
                    /\ UNCHANGED connections_success
                    /\ build_index' = build_index + 1
    /\ UNCHANGED <<devices_success, monitors_success>>
    /\ BuildNetworkFrame

(* after the loop of build_connections: check_network, and the symbol
   connections_list[-1][-1] when it answers False *)
BuildNetworkConnectionsCheck ==
    /\ pc = "build_connections"
    /\ build_index = Len(network_dict.CONNECT)
    /\ \E check_network \in BOOLEAN :
       \E undriven \in IF check_network THEN {<<>>} ELSE UndrivenLists :
         LET cons == network_dict.CONNECT
             last == cons[Len(cons)]
         IN /\ collab_calls' =
                   Append(collab_calls,
                          Call("check_network", <<>>, undriven,
                               Success(check_network), NoSides))
            /\ IF check_network
               THEN /\ Goto(Cur, "build_monitors")
                    /\ connections_success' = Success(TRUE)
               ELSE IF cons = <<>>
               THEN /\ Goto(Cur, "raised")
                    /\ UNCHANGED connections_success
               ELSE /\ Goto(display_input_not_connected_error(
                                Cur, last[Len(last)], undriven),
                            "build_monitors")
                    /\ connections_success' = Success(FALSE)
    /\ build_index' = 0
    /\ UNCHANGED <<devices_success, monitors_success>>
    /\ BuildNetworkFrame

(* what build_network, and with it parse_network, returns *)
BuildNetworkReturn(monitors) ==
    IF all(<<devices_success, connections_success, Success(monitors)>>)
    THEN "returned_true" ELSE "returned_false"

(* one iteration of build_monitors' loop; a fatal result ends build_monitors
   and build_network *)
BuildNetworkMonitor ==
    /\ pc = "build_monitors"
    /\ build_index < Len(network_dict.MONITOR)
    /\ \E error_code \in MonitorCodes \cup {NO_ERROR} :
         LET mon == NextItem(network_dict.MONITOR, build_index)
             port == IF Len(mon) = 3 THEN At(mon, 2) ELSE None
             H == handle_error(Cur, error_code, mon, FALSE, FALSE)
         IN /\ collab_calls' =
                   Append(collab_calls,
                          Call("make_monitor", mon,
                               <<SymId(At(mon, 0)), SymId(port)>>,
                               error_code, NoSides))
            /\ IF H[1]
               THEN /\ Goto(H[2], BuildNetworkReturn(FALSE))
                    /\ monitors_success' = Success(FALSE)
               ELSE /\ Goto(H[2], "build_monitors")
                    /\ UNCHANGED monitors_success
            /\ build_index' = build_index + 1
    /\ UNCHANGED <<devices_success, connections_success>>
    /\ BuildNetworkFrame

(* build_monitors returns True; build_network and parse_network return *)
BuildNetworkMonitorsReturn ==
    /\ pc = "build_monitors"
    /\ build_index = Len(network_dict.MONITOR)
    /\ Goto(Cur, BuildNetworkReturn(TRUE))
    /\ monitors_success' = Success(TRUE)
    /\ UNCHANGED <<build_index, collab_calls, devices_success,
                   connections_success>>
    /\ BuildNetworkFrame

BuildNetworkNext ==
    \/ BuildNetworkDevice
    \/ BuildNetworkDevicesReturn
    \/ BuildNetworkConnection
    \/ BuildNetworkConnectionsCheck
    \/ BuildNetworkMonitor
    \/ BuildNetworkMonitorsReturn

BuildNetworkSpec == BuildNetworkInit /\ [][BuildNetworkNext]_vars

(* the positions in collab_calls of the calls of a method *)
CallsOf(method) ==
    {i \in DOMAIN collab_calls : collab_calls[i].method = method}

(* the phase a collaborator call belongs to *)
PhaseOf(method) ==
    CASE method = "make_device" -> 1
      [] method \in {"make_connection", "check_network"} -> 2
      [] method = "make_monitor" -> 3

(* a result code that ends a phase: in the table and not the warning *)
FatalResult(code) ==
    code \in semantic_error_codes /\ code # "Monitor present"

(* a phase returned True: it was given its list, every item of the list was
   submitted, none with a fatal result (and, for connections, check_network
   answered True) *)
PhaseItemsDone(method, key, list) ==
    /\ key \in network_dict.keys
    /\ Cardinality(CallsOf(method)) = Len(list)
    /\ \A i \in CallsOf(method) : ~FatalResult(collab_calls[i].result)

DevicesTrue == PhaseItemsDone("make_device", "DEVICES", network_dict.DEVICES)

ConnectionsTrue ==
    /\ PhaseItemsDone("make_connection", "CONNECT", network_dict.CONNECT)
    /\ \E i \in CallsOf("check_network") : collab_calls[i].result = "True"

MonitorsTrue == PhaseItemsDone("make_monitor", "MONITOR", network_dict.MONITOR)

(* C13: the collaborator calls are made in the order devices, connections,
   monitors; a make_connection or check_network call is made only if
   build_devices returned True, a make_monitor call only if build_devices and
   build_connections returned True; and the run returns True iff all three
   phases returned True. *)
C13_Claimed ==
    /\ \A i, j \in DOMAIN collab_calls :
          i < j => PhaseOf(collab_calls[i].method)
                       <= PhaseOf(collab_calls[j].method)
    /\ CallsOf("make_connection") \cup CallsOf("check_network") # {}
          => DevicesTrue
    /\ CallsOf("make_monitor") # {} => DevicesTrue /\ ConnectionsTrue
    /\ pc = "done" =>
          (ret = "True" <=> DevicesTrue /\ ConnectionsTrue /\ MonitorsTrue)

(* the last collaborator call made *)
LastCall == collab_calls[Len(collab_calls)]

(* C14: for every result code a collaborator hands to handle_error: a code
   that is not in the table emits nothing and returns False (the loop goes
   on); Monitor present emits one warning and returns False (the loop goes
   on); every other code of the table returns True (the phase and the run
   end with False). *)
C14_HandleError ==
    [][(/\ Len(collab_calls') = Len(collab_calls) + 1
        /\ LastCall'.method # "check_network")
       => /\ LastCall'.result \notin semantic_error_codes =>
                 /\ print_calls' = print_calls
                 /\ pc' = pc
          /\ LastCall'.result = "Monitor present" =>
                 /\ Len(print_calls') = Len(print_calls) + 1
                 /\ print_calls'[Len(print_calls')].message
                        = SemanticMessage("Monitor present")
                 /\ pc' = pc
          /\ (/\ LastCall'.result \in semantic_error_codes
              /\ LastCall'.result # "Monitor present") =>
                 /\ pc' = "done"
                 /\ ret' = "False"]_vars

C14_Witness ==
    /\ pc = "build_monitors"
    /\ collab_calls # <<>>
    /\ LastCall.method = "make_monitor"
    /\ LastCall.result = "Monitor present"
    /\ print_calls # <<>>
    /\ print_calls[Len(print_calls)].message = SemanticMessage("Monitor present")

(* the calls of a method submit the items of the list in list order: the
   k-th call is made for the k-th item *)
InListOrder(method, list) ==
    \A i \in CallsOf(method) :
        LET k == Cardinality({j \in CallsOf(method) : j <= i})
        IN k <= Len(list) /\ collab_calls[i].item = list[k]

(* C15: in each build phase the items are submitted to the collaborator in
   list order, and an item whose result is fatal is the last call made: no
   later item is submitted, and the phase (and the run) returns False. *)
C15_StopAtFirstFatal ==
    /\ InListOrder("make_device", network_dict.DEVICES)
    /\ InListOrder("make_connection", network_dict.CONNECT)
    /\ InListOrder("make_monitor", network_dict.MONITOR)
    /\ \A i \in DOMAIN collab_calls :
          (/\ collab_calls[i].method # "check_network"
           /\ FatalResult(collab_calls[i].result))
          => /\ i = Len(collab_calls)
             /\ pc = "done"
             /\ ret = "False"

C15_Witness ==
    /\ pc = "done"
    /\ ret = "False"
    /\ Len(network_dict.MONITOR) = 2
    /\ Cardinality(CallsOf("make_monitor")) = 1
    /\ LastCall.method = "make_monitor"
    /\ LastCall.result = "Not output"
    /\ LastCall.item = network_dict.MONITOR[1]

(* the monitor calls answered Monitor present, in call order *)
IsWarned(call) ==
    call.method = "make_monitor" /\ call.result = "Monitor present"

WarnedCalls == SelectSeq(collab_calls, IsWarned)

(* every collaborator result so far is a success or Monitor present *)
OnlyMonitorPresent ==
    \A i \in DOMAIN collab_calls :
        collab_calls[i].result \in {NO_ERROR, "Monitor present", "True"}

(* C16: on a file without syntax errors whose collaborators answer nothing
   but success and Monitor present, exactly one warning is emitted per
   monitor answered Monitor present, at the monitor's first symbol; when the
   run over the three lists ends, every monitor of the list has been
   submitted and parse_network has returned True. *)
C16_MonitorPresentWarning ==
    (num_of_errors = 0 /\ OnlyMonitorPresent)
    => /\ print_calls =
              [i \in 1..Len(WarnedCalls) |->
                  Diagnostic(At(WarnedCalls[i].item, 0), 0,
                             SemanticMessage("Monitor present"))]
       /\ Emitted = print_calls
       /\ (pc = "done" /\ network_dict.keys = {"DEVICES", "CONNECT", "MONITOR"})
          => /\ ret = "True"
             /\ InListOrder("make_monitor", network_dict.MONITOR)
             /\ Cardinality(CallsOf("make_monitor"))
                = Len(network_dict.MONITOR)

C16_Witness ==
    /\ pc = "done"
    /\ ret = "True"
    /\ num_of_errors = 0
    /\ Len(network_dict.MONITOR) = 2
    /\ Cardinality(CallsOf("make_monitor")) = 2
    /\ Len(WarnedCalls) = 1
    /\ collab_calls[Len(collab_calls) - 1].result = "Monitor present"
    /\ Len(Emitted) = 1

(* C17: a make_device answered Device present yields exactly one diagnostic,
   at the name symbol of the duplicate item (its second symbol); it is the
   last collaborator call of the run, so no later device is built, and
   parse_network returns False. *)
C17_DevicePresent ==
    \A i \in CallsOf("make_device") :
        collab_calls[i].result = "Device present"
        => /\ i = Len(collab_calls)
           /\ collab_calls[i].item = network_dict.DEVICES[i]
           /\ print_calls =
                  <<Diagnostic(network_dict.DEVICES[i][2], 0,
                               SemanticMessage("Device present"))>>
           /\ SymType(network_dict.DEVICES[i][2]) = "name"
           /\ Emitted = print_calls
           /\ pc = "done"
           /\ ret = "False"

C17_Witness ==
    /\ Len(network_dict.DEVICES) = 2
    /\ Len(collab_calls) = 1
    /\ LastCall.method = "make_device"
    /\ LastCall.result = "Device present"
    /\ Len(Emitted) = 1
    /\ Emitted[1].symbol = network_dict.DEVICES[1][2]
    /\ ret = "False"

(* the warnings of the monitors answered Monitor present so far *)
WarningDiagnostics ==
    [i \in 1..Len(WarnedCalls) |->
        Diagnostic(At(WarnedCalls[i].item, 0), 0,
                   SemanticMessage("Monitor present"))]

DeviceAbsentAt(sym) ==
    <<Diagnostic(sym, 0, SemanticMessage("Device absent"))>>

(* the device-name symbol of the source / destination side of a connection
   item of 5 (a > b.I1) or 7 (a.Q > b.I1) symbols *)
SourceDevice(item) == item[1]

DestinationDevice(item) == IF Len(item) = 5 THEN item[3] ELSE item[5]

(* C18: a call answered Device absent is the last call of the run. For a
   monitor item (one symbol, or three with a dot second) exactly one
   diagnostic is added, at the item's first symbol; for a connection item
   (5 or 7 symbols) one diagnostic is emitted per side whose device
   devices.get_device does not know, at that side's device-name symbol,
   and none for a side whose device exists. *)
C18_DeviceAbsent ==
    \A i \in DOMAIN collab_calls :
        LET c == collab_calls[i]
        IN c.result = "Device absent"
           => /\ i = Len(collab_calls)
              /\ Emitted = print_calls
              /\ c.method \in {"make_monitor", "make_connection"}
              /\ c.method = "make_monitor"
                 => /\ \/ Len(c.item) = 1
                       \/ Len(c.item) = 3 /\ SymType(c.item[2]) = "dot"
                    /\ print_calls
                       = WarningDiagnostics \o DeviceAbsentAt(c.item[1])
              /\ c.method = "make_connection"
                 => /\ Len(c.item) \in {5, 7}
                    /\ SymType(SourceDevice(c.item)) = "name"
                    /\ SymType(DestinationDevice(c.item)) = "name"
                    /\ print_calls
                       = (IF c.sides[1]
                          THEN DeviceAbsentAt(SourceDevice(c.item))
                          ELSE <<>>)
                         \o (IF c.sides[2]
                             THEN DeviceAbsentAt(DestinationDevice(c.item))
                             ELSE <<>>)

(* only the destination device of a 5-symbol connection is unknown *)
C18_Witness ==
    /\ collab_calls # <<>>
    /\ LastCall.method = "make_connection"
    /\ LastCall.result = "Device absent"
    /\ LastCall.sides = <<FALSE, TRUE>>
    /\ Len(LastCall.item) = 5
    /\ Emitted = DeviceAbsentAt(LastCall.item[3])
    /\ ret = "False"

(* the last symbol of the last connection item *)
LastConnectionSymbol ==
    LET cons == network_dict.CONNECT
        last == cons[Len(cons)]
    IN last[Len(last)]

(* C19 as claimed: when check_network answers False after the connections
   of a non-empty list have been made, it is the last collaborator call,
   exactly one diagnostic is emitted, at the last symbol of the last
   connection item, its message lists every undriven input as a
   <<device, pin>> pair, one entry per undriven input, and the run returns
   False. *)
C19_Claimed ==
    \A i \in CallsOf("check_network") :
        (collab_calls[i].result = "False" /\ network_dict.CONNECT # <<>>)
        => /\ i = Len(collab_calls)
           /\ Cardinality(CallsOf("make_connection"))
              = Len(network_dict.CONNECT)
           /\ Len(print_calls) = 1
           /\ Emitted = print_calls
           /\ print_calls[1].symbol = LastConnectionSymbol
           /\ print_calls[1].message.cat = "Input not connected"
           /\ print_calls[1].message.list = collab_calls[i].ids
           /\ ret = "False"

(* the symbol of the monitored target: the port of a device.port monitor,
   the device of a monitor that names only a device *)
MonitoredTarget(item) == IF Len(item) = 3 THEN item[3] ELSE item[1]

(* C20 as claimed: a make_monitor answered Not output adds a single
   diagnostic, located at the monitored target: the port symbol (third
   symbol) of a device.port monitor, the device symbol otherwise. *)
C20_Claimed ==
    \A i \in CallsOf("make_monitor") :
        collab_calls[i].result = "Not output"
        => /\ print_calls
              = WarningDiagnostics
                \o <<Diagnostic(MonitoredTarget(collab_calls[i].item), 0,
                                SemanticMessage("Not output"))>>
           /\ Emitted = print_calls

(***************************************************************************)
(* The Symbol class methods applied to one text                            *)
(***************************************************************************)
(* the parser is not run: its state stays as constructed over no symbols *)
ParserIdleInit ==
    /\ source = <<>>
    /\ print_calls = <<>>
    /\ symbol = None
    /\ num_of_errors = 0
    /\ dev_list = <<>>
    /\ con_list = <<>>
    /\ mon_list = <<>>
    /\ list_ret = ReturnNone
    /\ network_dict = EmptyDict
    /\ dict_ret = "pending"
    /\ get_calls = 0
    /\ none_returns = 0
    /\ late_calls = 0
    /\ pc = "idle"
    /\ build_index = 0
    /\ collab_calls = <<>>
    /\ ret = "pending"
    /\ interface = GuiInterface
    /\ update_ret = NotLeft
    /\ NoPhaseCalled

ParserIdle ==
    UNCHANGED <<source, print_calls, symbol, num_of_errors, dev_list,
                con_list, mon_list, list_ret, network_dict, dict_ret,
                get_calls, none_returns, late_calls, pc, build_index,
                collab_calls, ret, interface, update_ret, devices_success,
                connections_success, monitors_success>>

(* no Scanner is constructed *)
ScannerIdleInit ==
    /\ file = <<>>
    /\ list_of_symbols = <<>>
    /\ print_to_gui = FALSE
    /\ symbol_counter = -1
    /\ printed = <<>>
    /\ error_messages = <<>>

ScannerIdle ==
    UNCHANGED <<file, list_of_symbols, print_to_gui, symbol_counter, printed,
                error_messages>>

(* one call of the interface: the method, its arguments and what it
   returned *)
ApiCall(method, args, result) ==
    [method |-> method, args |-> args, result |-> result]

(* the positions in api_calls of the calls of a method *)
ApiCallsOf(method) ==
    {i \in DOMAIN api_calls : api_calls[i].method = method}

(* the texts the Symbol methods are applied to: every text of at most
   MaxTextLen characters of TextAlphabet, and the reserved words and their
   near misses *)
MaxTextLen == 3

TextAlphabet == {"a", "z", "A", "I", "0", "1", "_", "+"}

ReservedTexts ==
    input_pins \cup output_pins \cup keywords \cup punctuation
    \cup {T_RC, T_SIGGEN, <<"I","0">>, <<"I","1","7">>, <<"I","0","1">>,
          <<"0","0","7">>, <<"q">>, <<"e","n","d">>, <<"D","A","T","A","_">>,
          <<"(">>, <<" ">>, <<"!">>, <<"#">>, <<";",";">>,
          <<"H","e","l","l","o","_","1">>, <<"h","e","l","l","o","_","1">>}

SymbolTexts ==
    UNION {[1..n -> TextAlphabet] : n \in 1..MaxTextLen} \cup ReservedTexts

SymbolInit ==
    /\ input_string \in SymbolTexts
    /\ api_calls = <<>>
    /\ names_list = <<>>
    /\ error_code_count = 0
    /\ ScannerIdleInit
    /\ ParserIdleInit

SymbolFrame ==
    /\ UNCHANGED <<input_string, names_list, error_code_count>>
    /\ ScannerIdle
    /\ ParserIdle

(* Symbol.determine_type(input_string) *)
DetermineType ==
    /\ ApiCallsOf("determine_type") = {}
    /\ api_calls' = Append(api_calls,
                           ApiCall("determine_type", <<input_string>>,
                                   determine_type(input_string)))
    /\ SymbolFrame

(* Symbol.index_not_name(input_string) *)
IndexNotName ==
    /\ ApiCallsOf("index_not_name") = {}
    /\ api_calls' = Append(api_calls,
                           ApiCall("index_not_name", <<input_string>>,
                                   index_not_name(input_string)))
    /\ SymbolFrame

SymbolNext ==
    \/ DetermineType
    \/ IndexNotName

SymbolSpec == SymbolInit /\ [][SymbolNext]_vars

(* the result of the call of a method, once it has been made *)
ResultOf(method) ==
    api_calls[CHOOSE i \in ApiCallsOf(method) : TRUE].result

IsLowerLetter(c) == c \in Range(LowerLetters)

IsUpperLetter(c) == c \in Range(UpperLetters)

AllDigits(t) == \A i \in DOMAIN t : t[i] \in Digits

AllWordCharacters(t) ==
    \A i \in DOMAIN t :
        IsLowerLetter(t[i]) \/ IsUpperLetter(t[i]) \/ t[i] \in Digits
        \/ t[i] = "_"

(* the keyword set as claimed *)
ClaimedKeywords ==
    {T_DEVICES, T_CONNECT, T_MONITOR, T_END, T_AND, T_NAND, T_OR, T_NOR,
     T_DTYPE, T_XOR, T_SWITCH, T_CLOCK, T_RC, T_SIGGEN}

(* the classification by the precedence as claimed *)
ClaimedType(t) ==
    IF t \in {<<"I">> \o DecimalText(i) : i \in 1..16}
             \cup {T_DATA, T_SET, T_CLEAR, T_CLK}
    THEN "input_pin"
    ELSE IF t \in {T_Q, T_QBAR} THEN "output_pin"
    ELSE IF t \in ClaimedKeywords THEN "keyword"
    ELSE IF AllDigits(t) THEN (IF t[1] # "0" THEN "integer" ELSE "number")
    ELSE IF AllWordCharacters(t)
         THEN (IF IsLowerLetter(t[1])
                  /\ \A i \in DOMAIN t : ~IsUpperLetter(t[i])
               THEN "name" ELSE "string")
    ELSE IF t = T_SEMI THEN "semi-colon"
    ELSE IF t = T_COLON THEN "colon"
    ELSE IF t = T_COMMA THEN "comma"
    ELSE IF t = T_DOT THEN "dot"
    ELSE IF t = T_ARROW THEN "arrow"
    ELSE "other"

(* C26 as claimed: determine_type classifies a text by the precedence input
   pins > output pins > the fourteen keywords (RC and SIGGEN included) >
   digits (integer, or number with a leading zero) > word characters (name or
   string) > the five punctuation characters > other. *)
C26_Claimed ==
    ApiCallsOf("determine_type") # {}
    => ResultOf("determine_type") = ClaimedType(input_string)

(* the offsets (0-based) of the characters of t that break a rule of names *)
Violations(t) ==
    {i \in 0..(Len(t) - 1) :
        IF i = 0 THEN ~IsLowerLetter(t[1])
        ELSE ~(IsLowerLetter(t[i + 1]) \/ t[i + 1] \in Digits
               \/ t[i + 1] = "_")}

FirstViolation(t) == CHOOSE i \in Violations(t) : \A j \in Violations(t) : i <= j

(* C27: index_not_name returns None iff the text starts with a lowercase
   letter and goes on with lowercase letters, digits and '_' only; otherwise
   it returns the smallest offending offset i with subcode 1 if i = 0, else 2
   if the character there is not alphanumeric or '_', else 3. *)
C27_IndexNotName ==
    ApiCallsOf("index_not_name") # {}
    => LET t == input_string
           r == ResultOf("index_not_name")
       IN IF Violations(t) = {} THEN r = <<None, None>>
          ELSE LET i == FirstViolation(t)
                   c == t[i + 1]
               IN r = <<i, IF i = 0 THEN 1
                           ELSE IF ~(IsLowerLetter(c) \/ IsUpperLetter(c)
                                     \/ c \in Digits \/ c = "_")
                           THEN 2 ELSE 3>>

(* 'aA+': the upper-case letter at offset 1 is reported, not the '+' *)
C27_Witness ==
    /\ input_string = <<"a", "A", "+">>
    /\ ApiCallsOf("index_not_name") # {}
    /\ ResultOf("index_not_name") = <<1, 3>>

(***************************************************************************)
(* One Names instance under calls of its four methods                      *)
(***************************************************************************)
(* at most MaxApiCalls calls are made; a lookup is given at most MaxLookup
   strings *)
MaxApiCalls == 3

MaxLookup == 2

N_c == <<"c">>

(* the strings looked up, and the strings asked for (N_c is never added) *)
LookupStrings == {N_a, N_b}

QueryStrings == {N_a, N_b, N_c}

LookupLists == UNION {[1..n -> LookupStrings] : n \in 1..MaxLookup}

NameIds == -2..3

ErrorCodeCounts == -1..2

NamesInit ==
    /\ names_list = <<>>
    /\ error_code_count = 0
    /\ api_calls = <<>>
    /\ input_string = NoneText
    /\ ScannerIdleInit
    /\ ParserIdleInit

NamesFrame ==
    /\ UNCHANGED input_string
    /\ ScannerIdle
    /\ ParserIdle

(* Names.lookup(name_string_list) *)
Lookup ==
    /\ Len(api_calls) < MaxApiCalls
    /\ \E name_string_list \in LookupLists :
         /\ names_list' = lookup(names_list, name_string_list)
         /\ api_calls' = Append(api_calls,
                                ApiCall("lookup", name_string_list,
                                        lookup_ids(names_list,
                                                   name_string_list)))
    /\ UNCHANGED error_code_count
    /\ NamesFrame

(* Names.query(name_string) *)
Query ==
    /\ Len(api_calls) < MaxApiCalls
    /\ \E name_string \in QueryStrings :
         api_calls' = Append(api_calls,
                             ApiCall("query", name_string,
                                     query(names_list, name_string)))
    /\ UNCHANGED <<names_list, error_code_count>>
    /\ NamesFrame

(* Names.get_name_string(name_id) *)
GetNameString ==
    /\ Len(api_calls) < MaxApiCalls
    /\ \E name_id \in NameIds :
         api_calls' = Append(api_calls,
                             ApiCall("get_name_string", name_id,
                                     get_name_string(names_list, name_id)))
    /\ UNCHANGED <<names_list, error_code_count>>
    /\ NamesFrame

(* Names.unique_error_codes(num_error_codes), num_error_codes an int *)
UniqueErrorCodes ==
    /\ Len(api_calls) < MaxApiCalls
    /\ \E num_error_codes \in ErrorCodeCounts :
         /\ error_code_count' = error_code_count + num_error_codes
         /\ api_calls' =
               Append(api_calls,
                      ApiCall("unique_error_codes", num_error_codes,
                              range(error_code_count' - num_error_codes,
                                    error_code_count')))
    /\ UNCHANGED names_list
    /\ NamesFrame

NamesNext ==
    \/ Lookup
    \/ Query
    \/ GetNameString
    \/ UniqueErrorCodes

NamesSpec == NamesInit /\ [][NamesNext]_vars

IsPrefix(s, t) == Len(s) <= Len(t) /\ \A i \in DOMAIN s : s[i] = t[i]

DuplicateFree(s) == \A i, j \in DOMAIN s : s[i] = s[j] => i = j

(* the id (0-based) of a string that is in the list *)
IdIn(names, s) == (CHOOSE i \in DOMAIN names : names[i] = s) - 1

(* the positions of a lookup's argument that hold a string unknown to names,
   at its first occurrence in the argument *)
FirstUnknown(names, list) ==
    {k \in DOMAIN list :
        /\ list[k] \notin Range(names)
        /\ \A j \in 1..(k - 1) : list[j] # list[k]}

(* the strings at those positions, in the order of the argument *)
UnknownStrings(names, list) ==
    LET K == FirstUnknown(names, list)
    IN [i \in 1..Cardinality(K) |->
           list[CHOOSE k \in K : Cardinality({j \in K : j <= k}) = i]]

(* every id a lookup or a query has returned for a string is the place of
   that string in names_list now *)
IdsStable ==
    \A i \in DOMAIN api_calls :
        LET c == api_calls[i]
        IN /\ c.method = "query" /\ c.result # None
              => get_name_string(names_list, c.result) = c.args
           /\ c.method = "lookup"
              => \A k \in DOMAIN c.args :
                     get_name_string(names_list, c.result[k]) = c.args[k]

(* the step is a call of lookup that returns the existing id of every known
   string and appends the unknown ones, each once *)
LookupStep ==
    LET c == api_calls'[Len(api_calls')]
    IN (Len(api_calls') = Len(api_calls) + 1 /\ c.method = "lookup")
       => /\ names_list' = names_list \o UnknownStrings(names_list, c.args)
          /\ \A k \in DOMAIN c.args :
                 /\ c.args[k] \in Range(names_list)
                    => c.result[k] = IdIn(names_list, c.args[k])
                 /\ c.args[k] \notin Range(names_list)
                    => /\ c.result[k] >= Len(names_list)
                       /\ names_list'[c.result[k] + 1] = c.args[k]

(* C28: under any sequence of lookup, query, get_name_string and
   unique_error_codes calls names_list only grows at its end and never holds
   a string twice; lookup returns the existing id of a known string and
   appends only unknown ones (a string repeated in one call once); an id
   once returned for a string stays the id of that string. *)
C28_NamesAppendOnly ==
    [][/\ IsPrefix(names_list, names_list')
       /\ DuplicateFree(names_list')
       /\ LookupStep
       /\ IdsStable']_vars

(* b is looked up twice in one call after a, and asked for afterwards *)
C28_Witness ==
    /\ Len(api_calls) = 3
    /\ api_calls[1] = ApiCall("lookup", <<N_a>>, <<0>>)
    /\ api_calls[2] = ApiCall("lookup", <<N_b, N_b>>, <<1, 1>>)
    /\ api_calls[3] = ApiCall("query", N_b, 1)
    /\ names_list = <<N_a, N_b>>

(* the counter before the i-th call: the sum of the arguments of the earlier
   unique_error_codes calls *)
RECURSIVE CounterBefore(_)
CounterBefore(i) ==
    IF i <= 1 THEN 0
    ELSE CounterBefore(i - 1)
         + (IF api_calls[i - 1].method = "unique_error_codes"
            THEN api_calls[i - 1].args ELSE 0)

(* C29 as claimed: each unique_error_codes(n) returns n consecutive integers
   that start at the previous value of the counter, and the codes returned
   by different calls are pairwise disjoint: no code is handed out twice. *)
C29_Claimed ==
    \A i \in ApiCallsOf("unique_error_codes") :
        LET c == api_calls[i]
        IN /\ c.args >= 0
              => /\ Len(c.result) = c.args
                 /\ \A k \in DOMAIN c.result :
                        c.result[k] = CounterBefore(i) + k - 1
           /\ \A j \in ApiCallsOf("unique_error_codes") :
                  i # j => Range(c.result) \cap Range(api_calls[j].result) = {}

(* the round trips through the table as it is now *)
RoundTrips ==
    /\ \A s \in QueryStrings :
           get_name_string(lookup(names_list, <<s>>),
                           lookup_ids(names_list, <<s>>)[1]) = s
    /\ \A i \in 0..(Len(names_list) - 1) :
           query(names_list, get_name_string(names_list, i)) = i

(* the step is a call of get_name_string: the string at the id, None for an
   id that is not an index of names_list; right after lookup([s]) the id it
   returned gives s back *)
GetNameStringStep ==
    LET c == api_calls'[Len(api_calls')]
    IN (Len(api_calls') = Len(api_calls) + 1 /\ c.method = "get_name_string")
       => /\ c.args \in 0..(Len(names_list) - 1)
             => c.result = names_list[c.args + 1]
          /\ c.args \notin 0..(Len(names_list) - 1) => c.result = NoneText
          /\ (/\ api_calls # <<>>
              /\ api_calls[Len(api_calls)].method = "lookup"
              /\ Len(api_calls[Len(api_calls)].args) = 1
              /\ c.args = api_calls[Len(api_calls)].result[1])
             => c.result = api_calls[Len(api_calls)].args[1]

(* the step is a call of query: the id of a string of the table, None for an
   absent one, and names_list is left as it was *)
QueryStep ==
    LET c == api_calls'[Len(api_calls')]
    IN (Len(api_calls') = Len(api_calls) + 1 /\ c.method = "query")
       => /\ names_list' = names_list
          /\ c.args \notin Range(names_list) => c.result = None
          /\ c.args \in Range(names_list)
             => get_name_string(names_list, c.result) = c.args

(* C30: get_name_string(lookup([s])[0]) = s for every string s,
   query(get_name_string(i)) = i for every id i of the table,
   get_name_string returns None for every other integer (negative ones
   included), and query of an absent string returns None and leaves
   names_list unchanged. *)
C30_RoundTrips ==
    [][/\ RoundTrips'
       /\ GetNameStringStep
       /\ QueryStep]_vars

(* b is added, read back by its id, and the id -1 gives None *)
C30_Witness ==
    /\ Len(api_calls) = 3
    /\ api_calls[1] = ApiCall("lookup", <<N_b>>, <<0>>)
    /\ api_calls[2] = ApiCall("get_name_string", 0, N_b)
    /\ api_calls[3] = ApiCall("get_name_string", -1, NoneText)

(***************************************************************************)
(* Scanner: reading the characters of the file into symbols                *)
(***************************************************************************)
(* file.read(1) at the end of the file, and the value None of a character *)
EndOfFileChar == ""

NoneChar == "None"

(* str.isspace() over the ASCII characters: space, \t, \n, \v (0x0b), \f,
   \r and the separators 0x1c..0x1f *)
whitespace ==
    {" ", "\t", "\n", "", "\f", "\r", "", "", "", ""}

isspace(c) == c \in whitespace

terminate_name_scan_characters == {";", ":", ",", ".", EndOfFileChar}

single_line_comment == "#"

multi_line_comment == "!"

comment == {single_line_comment, multi_line_comment}

(* Symbol(string, id, line_number, column_number) *)
SymbolAt(string, id, line_number, column_number) ==
    [id |-> id, type |-> determine_type(string),
     line_number |-> line_number, column_number |-> column_number]

(* the scanner while it reads chars: the characters read so far (pos), the
   fields current_line_number, current_column_number and current_char, the
   names table and list_of_symbols *)
ScanStart(chars, names) ==
    [chars |-> chars, pos |-> 0, current_line_number |-> 1,
     current_column_number |-> 0, current_char |-> NoneChar,
     names |-> names, list_of_symbols |-> <<>>]

(* a get_next_char that counts the line but does not restart the column *)
get_next_char_no_column_reset(S) ==
    LET prev_char == S.current_char
        character == IF S.pos < Len(S.chars) THEN S.chars[S.pos + 1]
                     ELSE EndOfFileChar
        at_end == S.pos >= Len(S.chars)
    IN [S EXCEPT !.pos = IF at_end THEN @ ELSE @ + 1,
                 !.current_line_number = IF prev_char = "\n" THEN @ + 1 ELSE @,
                 !.current_column_number = @ + 1,
                 !.current_char = character]

(* get_next_char: the character read is current_char of the result *)
get_next_char(S) ==
    LET prev_char == S.current_char
        character == IF S.pos < Len(S.chars) THEN S.chars[S.pos + 1]
                     ELSE EndOfFileChar
        at_end == S.pos >= Len(S.chars)
    IN [S EXCEPT !.pos = IF at_end THEN @ ELSE @ + 1,
                 !.current_line_number = IF prev_char = "\n" THEN @ + 1 ELSE @,
                 !.current_column_number = IF prev_char = "\n" THEN 1 ELSE @ + 1,
                 !.current_char = character]

(* get_next_number: <<scanner, number>>; the next character is current_char *)
RECURSIVE get_next_number(_, _)
get_next_number(S, met_numbers) ==
    LET S1 == get_next_char(S)
    IN IF isdigit(S1.current_char)
       THEN get_next_number(S1, Append(met_numbers, S1.current_char))
       ELSE <<S1, met_numbers>>

(* get_next_name: <<scanner, name>>; the next character is current_char *)
RECURSIVE get_next_name(_, _)
get_next_name(S, met_name_characters) ==
    LET S1 == get_next_char(S)
    IN IF isspace(S1.current_char)
          \/ S1.current_char \in terminate_name_scan_characters
       THEN <<S1, met_name_characters>>
       ELSE get_next_name(S1, Append(met_name_characters, S1.current_char))

RECURSIVE skip_spaces(_)
skip_spaces(S) ==
    LET S1 == get_next_char(S)
    IN IF isspace(S1.current_char) THEN skip_spaces(S1) ELSE S1

(* skip_comment: <<scanner, character returned>>; None when a multi-line
   comment is not closed before the end of the file *)
RECURSIVE skip_comment(_, _)
skip_comment(S, comment_character) ==
    LET S1 == get_next_char(S)
    IN IF comment_character = single_line_comment
       THEN IF S1.current_char = "\n"
            THEN <<get_next_char(S1), get_next_char(S1).current_char>>
            ELSE IF S1.current_char = EndOfFileChar
            THEN <<S1, EndOfFileChar>>
            ELSE skip_comment(S1, comment_character)
       ELSE IF S1.current_char = multi_line_comment
            THEN <<get_next_char(S1), get_next_char(S1).current_char>>
            ELSE IF S1.current_char = EndOfFileChar
            THEN <<S1, NoneChar>>
            ELSE skip_comment(S1, comment_character)

(* create_symbol and list_of_symbols.append *)
append_symbol(S, string, column_number, line_number) ==
    LET names == lookup(S.names, <<string>>)
        symbol_id == lookup_ids(S.names, <<string>>)[1]
    IN [S EXCEPT !.names = names,
                 !.list_of_symbols =
                     Append(@, SymbolAt(string, symbol_id, line_number,
                                        column_number))]

(* the loop of get_symbols: <<scanner, raised>>; character.isdigit() on the
   character None raises AttributeError *)
RECURSIVE get_symbols_loop(_, _)
get_symbols_loop(S, character) ==
    LET column_number == S.current_column_number
        line_number == S.current_line_number
    IN IF character = EndOfFileChar THEN <<S, FALSE>>
       ELSE IF character = NoneChar THEN <<S, TRUE>>
       ELSE IF isdigit(character)
       THEN LET R == get_next_number(S, <<character>>)
            IN get_symbols_loop(
                   append_symbol(R[1], R[2], column_number, line_number),
                   R[1].current_char)
       ELSE IF isalpha(character)
       THEN LET R == get_next_name(S, <<character>>)
            IN get_symbols_loop(
                   append_symbol(R[1], R[2], column_number, line_number),
                   R[1].current_char)
       ELSE IF isspace(character)
       THEN get_symbols_loop(skip_spaces(S), skip_spaces(S).current_char)
       ELSE IF character \in comment
       THEN LET R == skip_comment(S, character)
            IN get_symbols_loop(R[1], R[2])
       ELSE LET S1 == get_next_char(
                          append_symbol(S, <<character>>, column_number,
                                        line_number))
            IN get_symbols_loop(S1, S1.current_char)

(* Scanner(path, names) over a file of the given characters and a new Names:
   the scanner after get_symbols, and whether the construction raised *)
scan(chars) ==
    LET S == get_next_char(ScanStart(chars, <<>>))
        R == get_symbols_loop(S, S.current_char)
    IN [names |-> R[1].names, list_of_symbols |-> R[1].list_of_symbols,
        raised |-> R[2]]

(***************************************************************************)
(* A Scanner constructed over a file, and successive get_symbol calls      *)
(***************************************************************************)
(* the files: every text of at most MaxScanLen characters of FileAlphabet and
   a few longer ones, with a form feed among them; at most MaxGetCalls
   get_symbol calls are made *)
MaxFileLen == 4

MaxScanLen == 3

MaxGetCalls == 7

FileAlphabet == {"a", "1", ";", " ", "\n", "#", "!"}

LongerFiles ==
    {<<"a", "\f", "a">>, <<"1", "\f", "a">>, <<"\f">>, <<" ", "\f", " ", "a">>,
     <<"!", "\n", "!", "a">>, <<"\n", "\n", "1", ";">>,
     <<"a", " ", "1", ";", "a">>}

ScannerFiles ==
    UNION {[1..n -> FileAlphabet] : n \in 0..MaxScanLen} \cup LongerFiles

(* the first entry of api_calls is the construction and its outcome *)
Constructed == api_calls # <<>> /\ api_calls[1].result = "constructed"

ScannerInit ==
    /\ file \in ScannerFiles
    /\ names_list = scan(file).names
    /\ list_of_symbols = scan(file).list_of_symbols
    /\ api_calls = <<ApiCall("Scanner", <<>>,
                             IF scan(file).raised THEN "raise"
                             ELSE "constructed")>>
    /\ print_to_gui = FALSE
    /\ symbol_counter = -1
    /\ printed = <<>>
    /\ error_messages = <<>>
    /\ input_string = NoneText
    /\ error_code_count = 0
    /\ ParserIdleInit

(* symbol = scanner.get_symbol() *)
GetSymbol ==
    /\ Constructed
    /\ get_calls < MaxGetCalls
    /\ Set(get_symbol(Cur))
    /\ api_calls' = Append(api_calls,
                           ApiCall("get_symbol", <<>>, get_symbol(Cur).symbol))
    /\ UNCHANGED <<source, names_list, list_of_symbols, print_to_gui,
                   build_index, collab_calls, ret, input_string, file,
                   error_code_count>>
    /\ UNCHANGED gui_vars
    /\ UNCHANGED success_vars

(* scanner.reset_symbol_counter() *)
ResetSymbolCounter ==
    /\ Constructed
    /\ ApiCallsOf("reset_symbol_counter") = {}
    /\ symbol_counter' = -1
    /\ api_calls' = Append(api_calls,
                           ApiCall("reset_symbol_counter", <<>>, None))
    /\ UNCHANGED <<file, names_list, list_of_symbols, print_to_gui, printed,
                   error_messages, input_string, error_code_count>>
    /\ ParserIdle

(* the text, column and line create_symbol is called with from outside *)
CreatedText == <<"a">>

(* scanner.create_symbol(string, column_number, line_number): the string is
   looked up in the names table, which adds it when it is new, and a Symbol
   is returned; list_of_symbols is not touched *)
CreateSymbol ==
    /\ Constructed
    /\ ApiCallsOf("create_symbol") = {}
    /\ names_list' = lookup(names_list, <<CreatedText>>)
    /\ api_calls' = Append(api_calls,
                           ApiCall("create_symbol", <<CreatedText, 1, 1>>,
                                   SymbolAt(CreatedText,
                                            lookup_ids(names_list,
                                                       <<CreatedText>>)[1],
                                            1, 1)))
    /\ UNCHANGED <<file, list_of_symbols, print_to_gui, symbol_counter,
                   printed, error_messages, input_string, error_code_count>>
    /\ ParserIdle

ScannerNext ==
    \/ GetSymbol
    \/ ResetSymbolCounter
    \/ CreateSymbol

ScannerSpec == ScannerInit /\ [][ScannerNext]_vars

(* the successive get_symbol calls: those made since the construction or, if
   reset_symbol_counter has been called, since its last call *)
SuccessiveCalls ==
    LET resets == ApiCallsOf("reset_symbol_counter")
        start == IF resets = {} THEN 1
                 ELSE CHOOSE i \in resets : \A j \in resets : j <= i
        IsGetSymbol(call) == call.method = "get_symbol"
    IN SelectSeq(SubSeq(api_calls, start + 1, Len(api_calls)), IsGetSymbol)

(* C21: over a file of n >= 1 symbols the j-th get_symbol call returns symbol
   (j - 1) mod (n + 1), and None where that is n: symbols 0..n-1 in order,
   then None once, then the same again; a call that returns None leaves the
   cursor before the start. *)
C21_GetSymbolPeriodic ==
    (Constructed /\ Len(list_of_symbols) >= 1)
    => LET n == Len(list_of_symbols)
       IN /\ \A j \in 1..Len(SuccessiveCalls) :
                 SuccessiveCalls[j].result
                 = IF (j - 1) % (n + 1) = n THEN None ELSE (j - 1) % (n + 1)
          /\ symbol_counter = (Len(SuccessiveCalls) % (n + 1)) - 1

(* two symbols: 0, 1, None, 0, 1, None, 0 *)
C21_Witness ==
    /\ Constructed
    /\ Len(list_of_symbols) = 2
    /\ Len(SuccessiveCalls) = 7
    /\ ApiCallsOf("reset_symbol_counter") = {}
    /\ SuccessiveCalls[3].result = None
    /\ SuccessiveCalls[4].result = 0
    /\ SuccessiveCalls[6].result = None
    /\ SuccessiveCalls[7].result = 0

(* the positions of file where a '!' opens a comment that is never closed:
   the only '!' of the file, outside a '#' comment and not folded into a name
   (the characters between it and the preceding separator are all digits) *)
Separators == {" ", "\n", "\f", ";"}

UnterminatedOpenings ==
    {k \in 1..Len(file) :
        /\ file[k] = multi_line_comment
        /\ \A i \in 1..Len(file) : file[i] = multi_line_comment => i = k
        /\ \A i \in 1..(k - 1) : file[i] # single_line_comment
        /\ \A i \in 1..(k - 1) :
              (\A m \in i..(k - 1) : file[m] \notin Separators)
              => isdigit(file[i])}

(* C24: over a file with a '!' comment that is never closed the Scanner is
   constructed without raising, list_of_symbols holds exactly the symbols
   that precede the opening '!', and nothing is printed or buffered. *)
C24_Claimed ==
    \A k \in UnterminatedOpenings :
        /\ Constructed
        /\ list_of_symbols = scan(SubSeq(file, 1, k - 1)).list_of_symbols
        /\ printed = <<>>
        /\ error_messages = <<>>

(* offsets of file that lie on line line_number at column column_number *)
OffsetsAt(chars, line_number, column_number) ==
    {p \in 1..Len(chars) :
        /\ line_number
           = 1 + Cardinality({i \in 1..(p - 1) : chars[i] = "\n"})
        /\ \E start \in 0..(p - 1) :
              /\ start = 0 \/ chars[start] = "\n"
              /\ \A i \in (start + 1)..(p - 1) : chars[i] # "\n"
              /\ column_number = p - start}

SymbolText(i) == get_name_string(names_list, list_of_symbols[i].id)

(* symbol i starts at offset p of the file: its text stands there, on its
   recorded line and column, after the end of every earlier symbol *)
RECURSIVE StartsAt(_, _)
StartsAt(i, p) ==
    /\ p \in OffsetsAt(file, list_of_symbols[i].line_number,
                       list_of_symbols[i].column_number)
    /\ p + Len(SymbolText(i)) - 1 <= Len(file)
    /\ SubSeq(file, p, p + Len(SymbolText(i)) - 1) = SymbolText(i)
    /\ \A j \in 1..(i - 1) : \E q \in 1..(p - 1) :
           StartsAt(j, q) /\ q + Len(SymbolText(j)) <= p

(* C25: every symbol's line_number is 1 plus the number of newlines before
   its first character and its column_number the 1-based offset of that
   character in its line: the symbol's text stands in the file at the
   recorded line and column, in the order of the symbols. *)
C25_LineAndColumn ==
    Constructed
    => \A i \in 1..Len(list_of_symbols) : \E p \in 1..Len(file) : StartsAt(i, p)

(* after a comment over two lines, and next to another token *)
C25_Witness ==
    /\ Constructed
    /\ Len(api_calls) > 1
    /\ \/ /\ file = <<"!", "\n", "!", "a">>
          /\ list_of_symbols[1].line_number = 2
          /\ list_of_symbols[1].column_number = 2
       \/ /\ file = <<"\n", "\n", "1", ";">>
          /\ list_of_symbols[2].line_number = 3
          /\ list_of_symbols[2].column_number = 2
       \/ /\ file = <<"#", "\n", "a">>
          /\ list_of_symbols[1].line_number = 2
          /\ list_of_symbols[1].column_number = 1

(***************************************************************************)
(* Scanner.print_error: the text it prints or buffers                      *)
(***************************************************************************)
(* file.readlines(): the lines of the file, each with its newline *)
RECURSIVE readlines(_)
readlines(chars) ==
    IF chars = <<>> THEN <<>>
    ELSE IF \E i \in 1..Len(chars) : chars[i] = "\n"
    THEN LET end == CHOOSE i \in 1..Len(chars) :
                        /\ chars[i] = "\n"
                        /\ \A j \in 1..(i - 1) : chars[j] # "\n"
         IN <<SubSeq(chars, 1, end)>>
            \o readlines(SubSeq(chars, end + 1, Len(chars)))
    ELSE <<chars>>

(* a get_line that returns the last line for a line beyond the file *)
get_line_clamped(chars, line_number) ==
    LET lines == readlines(chars)
        index == line_number - 1
    IN IF lines = <<>> THEN [raised |-> TRUE, line |-> <<>>]
       ELSE IF index >= Len(lines)
       THEN [raised |-> FALSE, line |-> lines[Len(lines)]]
       ELSE IF index >= 0
       THEN [raised |-> FALSE, line |-> lines[index + 1]]
       ELSE IF index >= -Len(lines)
       THEN [raised |-> FALSE, line |-> lines[Len(lines) + index + 1]]
       ELSE [raised |-> TRUE, line |-> <<>>]

(* get_line: readlines()[line_number - 1]; an index out of range raises
   IndexError, a negative index counts from the last line *)
get_line(chars, line_number) ==
    LET lines == readlines(chars)
        index == line_number - 1
    IN IF index >= Len(lines) \/ index < -Len(lines)
       THEN [raised |-> TRUE, line |-> <<>>]
       ELSE IF index >= 0
       THEN [raised |-> FALSE, line |-> lines[index + 1]]
       ELSE [raised |-> FALSE, line |-> lines[Len(lines) + index + 1]]

(* an rstrip that removes newlines only *)
RECURSIVE rstrip_newlines(_)
rstrip_newlines(string) ==
    IF string # <<>> /\ string[Len(string)] = "\n"
    THEN rstrip_newlines(SubSeq(string, 1, Len(string) - 1))
    ELSE string

(* str.rstrip() *)
RECURSIVE rstrip(_)
rstrip(string) ==
    IF string # <<>> /\ isspace(string[Len(string)])
    THEN rstrip(SubSeq(string, 1, Len(string) - 1))
    ELSE string

(* " " * n: empty when n is not positive *)
Spaces(n) == [i \in 1..n |-> " "]

S_Line == <<"L", "i", "n", "e", " ">>

(* the symbol argument of print_error: <<>> for None, <<symbol>> otherwise *)
NoSymbol == <<>>

(* print_error: success, and the text written to the console and the
   error_messages after the call, given those before it *)
Scanner_print_error(f, gui, out, msgs, symbol_arg, index_of_arrow, message) ==
    IF symbol_arg = NoSymbol
    THEN [success |-> FALSE, printed |-> out, error_messages |-> msgs]
    ELSE LET line_number == symbol_arg[1].line_number
             got == get_line(f, line_number)
             line_string == got.line
             column_number == symbol_arg[1].column_number
             line_number_string ==
                 S_Line \o DecimalText(line_number) \o <<":", " ">>
             position_of_arrow ==
                 Len(line_number_string) + column_number + index_of_arrow
             arrow_string == Spaces(position_of_arrow - 1) \o <<"^">>
         IN IF got.raised
            THEN [success |-> FALSE, printed |-> out,
                  error_messages |-> msgs]
            ELSE IF ~gui
            THEN [success |-> TRUE,
                  printed |-> out \o message \o <<"\n">>
                              \o line_number_string \o rstrip(line_string)
                              \o <<"\n">>
                              \o arrow_string \o <<"\n">>,
                  error_messages |-> msgs]
            ELSE [success |-> TRUE, printed |-> out,
                  error_messages |-> msgs \o message \o <<"\n">>
                                     \o line_number_string
                                     \o rstrip(line_string) \o <<"\n">>
                                     \o arrow_string \o <<"\n">>]

(* the files: every text of at most MaxFileLen characters of PrintAlphabet;
   at most MaxPrintCalls calls of print_error; here printed is the text on
   the console and error_messages the buffered text *)
MaxPrintCalls == 2

PrintAlphabet == {"a", " ", "\n"}

(* a line that ends in a space and a form feed *)
FormFeedFile == <<"a", " ", "\f", "\n", "a">>

PrintFiles ==
    UNION {[1..n -> PrintAlphabet] : n \in 0..MaxFileLen} \cup {FormFeedFile}

Messages == {<<"m">>, <<>>}

ArrowIndexes == {0, 2}

(* None, the symbols of the file, and a symbol of the line after the last *)
SymbolArguments ==
    {NoSymbol} \cup {<<list_of_symbols[i]>> : i \in 1..Len(list_of_symbols)}
    \cup {<<SymbolAt(N_a, 0, Len(readlines(file)) + 1, 1)>>}

PrintErrorInit ==
    /\ file \in PrintFiles
    /\ names_list = scan(file).names
    /\ list_of_symbols = scan(file).list_of_symbols
    /\ print_to_gui \in BOOLEAN
    /\ api_calls = <<>>
    /\ symbol_counter = -1
    /\ printed = <<>>
    /\ error_messages = <<>>
    /\ input_string = NoneText
    /\ error_code_count = 0
    /\ ParserIdleInit

(* scanner.print_error(symbol, index_of_arrow, message) *)
PrintError ==
    /\ Len(api_calls) < MaxPrintCalls
    /\ \E symbol_arg \in SymbolArguments, index_of_arrow \in ArrowIndexes,
          message \in Messages :
         LET R == Scanner_print_error(file, print_to_gui, printed,
                                      error_messages, symbol_arg,
                                      index_of_arrow, message)
         IN /\ printed' = R.printed
            /\ error_messages' = R.error_messages
            /\ api_calls' = Append(api_calls,
                                   ApiCall("print_error",
                                           <<symbol_arg, index_of_arrow,
                                             message>>, R.success))
    /\ UNCHANGED <<file, names_list, list_of_symbols, print_to_gui,
                   symbol_counter, input_string, error_code_count>>
    /\ ParserIdle

PrintErrorNext == PrintError

PrintErrorSpec == PrintErrorInit /\ [][PrintErrorNext]_vars

(* the call made by a step of print_error *)
NewCall == api_calls'[Len(api_calls')]

PrintErrorStep == api_calls' = Append(api_calls, NewCall)

NumberOfLines ==
    Cardinality({i \in 1..Len(file) : file[i] = "\n"})
    + (IF file # <<>> /\ file[Len(file)] # "\n" THEN 1 ELSE 0)

(* the offset before the first character of line n: 0, or a newline with
   n - 1 newlines up to it *)
LineStart(n) ==
    CHOOSE p \in 0..Len(file) :
        /\ p = 0 \/ file[p] = "\n"
        /\ Cardinality({i \in 1..p : file[i] = "\n"}) = n - 1

(* line n without its trailing whitespace: it ends at the last character of
   the line that is not whitespace *)
StrippedLine(n) ==
    LET start == LineStart(n)
        inline == {q \in (start + 1)..Len(file) :
                      /\ \A i \in (start + 1)..(q - 1) : file[i] # "\n"
                      /\ file[q] \notin whitespace}
        end == IF inline = {} THEN start
               ELSE CHOOSE q \in inline : \A r \in inline : r <= q
    IN SubSeq(file, start + 1, end)

(* the three lines of a call: the message, the prefixed source line, the
   caret line *)
ThreeLines(sym, k, message) ==
    LET prefix == S_Line \o DecimalText(sym.line_number) \o <<":", " ">>
    IN message \o <<"\n">>
       \o prefix \o StrippedLine(sym.line_number) \o <<"\n">>
       \o [i \in 1..(Len(prefix) + sym.column_number + k - 1) |-> " "]
       \o <<"^">> \o <<"\n">>

LineExists(symbol_arg) ==
    /\ symbol_arg # NoSymbol
    /\ symbol_arg[1].line_number \in 1..NumberOfLines

(* C22: a print_error call with a symbol whose line exists emits exactly three
   lines: the message; 'Line N: ' and line N without trailing whitespace;
   len('Line N: ') + column + k - 1 spaces and '^'.  Directly they are
   printed, in embedded mode they are appended to error_messages. *)
C22_ThreeLines ==
    [][(PrintErrorStep /\ LineExists(NewCall.args[1]))
       => LET text == ThreeLines(NewCall.args[1][1], NewCall.args[2],
                                 NewCall.args[3])
          IN IF print_to_gui
             THEN /\ error_messages' = error_messages \o text
                  /\ printed' = printed
             ELSE /\ printed' = printed \o text
                  /\ error_messages' = error_messages]_vars

(* a second call in embedded mode, over a line with trailing spaces *)
C22_Witness ==
    /\ file = <<" ", "a", " ", "\n">>
    /\ print_to_gui
    /\ Len(api_calls) = 2
    /\ api_calls[1].result = TRUE
    /\ api_calls[2].result = TRUE
    /\ api_calls[2].args[2] = 2
    /\ Len(error_messages) = 2 * Len(<<"m", "\n", "L", "i", "n", "e", " ",
                                       "1", ":", " ", " ", "a", "\n">>)
                             + (9 + 1 + 1) + (11 + 1 + 1)

(* C23: print_error returns False exactly when the symbol is None or its line
   is not in the file, and then prints nothing and leaves error_messages as
   it was. *)
C23_ReturnsFalse ==
    [][PrintErrorStep
       => /\ NewCall.result = LineExists(NewCall.args[1])
          /\ ~NewCall.result => /\ printed' = printed
                                 /\ error_messages' = error_messages]_vars

(* after a printed diagnostic, a call with None and one with a symbol of a
   line beyond the file have returned False *)
C23_Witness ==
    /\ Len(api_calls) = 2
    /\ api_calls[1].result = TRUE
    /\ api_calls[2].result = FALSE
    /\ api_calls[2].args[1] # NoSymbol
    /\ printed # <<>>

(***************************************************************************)
(* Properties of the whole run: termination, resynchronisation, items      *)
(***************************************************************************)
(* the positions of network_dict, in the order the run passes them; a list
   goes back from its *_next position to its item only through get_symbol *)
SyntaxPositions ==
    <<"parse_network", "device_list", "device", "device_list_next",
      "after_device_list", "connection_list", "connection",
      "connection_list_next", "after_connection_list", "monitor_list",
      "monitor", "monitor_list_next", "after_monitor_list",
      "network_dict_returned">>

PositionRank(position) ==
    IF \E k \in DOMAIN SyntaxPositions : SyntaxPositions[k] = position
    THEN CHOOSE k \in DOMAIN SyntaxPositions : SyntaxPositions[k] = position
    ELSE Len(SyntaxPositions)

(* what is left of the run: the get_symbol calls that can still be made,
   then the positions still ahead *)
Variant(calls, position) ==
    (Len(list_of_symbols) + 1 - calls) * Len(SyntaxPositions)
    + (Len(SyntaxPositions) - PositionRank(position))

InNetworkDict == PositionRank(pc) < Len(SyntaxPositions)

(* C32: network_dict terminates on every symbol sequence: every step of it
   strictly decreases a natural-valued variant, every get_symbol call that
   returns a symbol has advanced the cursor by one, and a run makes at most
   len(list_of_symbols) + 1 get_symbol calls. *)
C32_Terminates ==
    [][InNetworkDict
       => /\ Variant(get_calls', pc') < Variant(get_calls, pc)
          /\ Variant(get_calls', pc') >= 0
          /\ get_calls' <= Len(list_of_symbols) + 1
          /\ none_returns' = 0 => symbol_counter' = get_calls' - 1
          /\ none_returns' > 0 => get_calls' = Len(list_of_symbols) + 1]_vars

(* network_dict has returned after a resynchronisation loop ran into the end
   of the input *)
C32_Witness ==
    /\ Returned
    /\ none_returns = 1
    /\ get_calls = Len(list_of_symbols) + 1
    /\ Len(SyntaxCalls) >= 2
    /\ Len(list_of_symbols) >= 10

(* an item call of the running step has recorded a syntax error *)
ItemFailed(position) == pc = position /\ num_of_errors' > num_of_errors

(* after the step the current symbol is None, ',', ';' or the keyword *)
AtSynchronisationPoint(keyword) ==
    \/ symbol' = None
    \/ SymType(symbol') \in {"comma", "semi-colon"}
    \/ SymName(symbol') = keyword

(* C33: whenever device(), connection() or monitor() returns after recording
   a syntax error, the current symbol is a comma, a semicolon, the keyword of
   the following section, or None. *)
C33_Claimed ==
    [][/\ ItemFailed("device") => AtSynchronisationPoint(T_CONNECT)
       /\ ItemFailed("connection") => AtSynchronisationPoint(T_MONITOR)
       /\ ItemFailed("monitor") => AtSynchronisationPoint(T_END)]_vars

(* the symbols the running item call has consumed *)
ConsumedSymbols == [k \in 1..(symbol' - symbol) |-> symbol + k - 1]

(* the item call at position appends one entry to its list: the placeholder
   iff it recorded a syntax error, and otherwise the symbols it consumed *)
AppendsOne(position, list, list_after) ==
    pc = position
    => /\ Len(list_after) = Len(list) + 1
       /\ SubSeq(list_after, 1, Len(list)) = list
       /\ (list_after[Len(list_after)] = NoneItem)
          <=> (num_of_errors' > num_of_errors)
       /\ (num_of_errors' = num_of_errors)
          => list_after[Len(list_after)] = ConsumedSymbols

(* C34: every call of device(), connection() or monitor() appends exactly one
   entry to its list: None iff the call recorded a syntax error, and
   otherwise the list of the item's symbols. *)
C34_OneEntryPerItem ==
    [][/\ AppendsOne("device", dev_list, dev_list')
       /\ AppendsOne("connection", con_list, con_list')
       /\ AppendsOne("monitor", mon_list, mon_list')]_vars

(* lists holding both a placeholder and items *)
C34_Witness ==
    /\ Returned
    /\ Len(dev_list) = 2
    /\ dev_list[1] = NoneItem
    /\ dev_list[2] # NoneItem
    /\ Len(con_list) >= 1
    /\ NoneItem \notin Range(con_list)
    /\ mon_list # <<>>

(* C35: whenever network_dict returns a dictionary, the dictionary has the
   three keys DEVICES, CONNECT and MONITOR and none of the three lists holds
   a None placeholder. *)
C35_Claimed ==
    (dict_ret = "dict")
    => /\ network_dict.keys = AllKeys
       /\ NoneItem \notin Range(network_dict.DEVICES)
       /\ NoneItem \notin Range(network_dict.CONNECT)
       /\ NoneItem \notin Range(network_dict.MONITOR)

(* the categories of the symbols of an item *)
ItemTypes(item) == [k \in DOMAIN item |-> SymType(item[k])]

(* the words device() dispatches on *)
DeviceKeywords ==
    {T_CLOCK, T_RC, T_SWITCH, T_AND, T_NAND, T_OR, T_NOR, T_SIGGEN, T_DTYPE,
     T_XOR}

ConnectionItemShapes ==
    {<<"name", "arrow", "name", "dot", "input_pin">>,
     <<"name", "dot", "output_pin", "arrow", "name", "dot", "input_pin">>}

MonitorItemShapes == {<<"name">>, <<"name", "dot", "output_pin">>}

(* the Python indices build_devices, build_connections, build_monitors and
   get_labelled_symbols use on an item *)
DeviceIndexes(item) == {0, 1} \cup (IF Len(item) = 3 THEN {2} ELSE {})

ConnectionIndexes(item) ==
    {0, 1} \cup (IF SymType(At(item, 1)) = "dot"
                 THEN {2, 4, 5}
                      \cup (IF SymType(At(item, 5)) = "dot" THEN {6} ELSE {})
                 ELSE {2, 3}
                      \cup (IF SymType(At(item, 3)) = "dot" THEN {4} ELSE {}))

MonitorIndexes(item) == {0} \cup (IF Len(item) = 3 THEN {2} ELSE {})

(* list[k] for every k of indexes does not raise IndexError: a Python index
   of a list of n elements is one of -n .. n - 1 *)
InRange(indexes, list) ==
    \A k \in indexes : -Len(list) <= k /\ k < Len(list)

Items(list) == {list[i] : i \in DOMAIN list} \ {NoneItem}

(* every non-placeholder item of the syntax phase has one of the fixed
   shapes: a device [keyword, name] or [keyword, name, property], a
   connection of 5 or 7 symbols, a monitor [name] or [name, dot, output_pin];
   and the indices the build phase and get_labelled_symbols apply to the item
   are within it *)
ItemShapes ==
    /\ \A item \in Items(dev_list) :
          /\ Len(item) \in {2, 3}
          /\ SymName(At(item, 0)) \in DeviceKeywords
          /\ SymType(At(item, 1)) = "name"
          /\ Len(item) = 2 <=> SymName(At(item, 0)) \in {T_DTYPE, T_XOR}
          /\ InRange(DeviceIndexes(item), item)
    /\ \A item \in Items(con_list) :
          /\ ItemTypes(item) \in ConnectionItemShapes
          /\ InRange(ConnectionIndexes(item), item)
    /\ \A item \in Items(mon_list) :
          /\ ItemTypes(item) \in MonitorItemShapes
          /\ InRange(MonitorIndexes(item), item)

(* check_network has just answered False: build_connections evaluates
   connections_list[-1][-1] *)
LastSymbolAsked ==
    /\ collab_calls # <<>>
    /\ collab_calls[Len(collab_calls)].method = "check_network"
    /\ collab_calls[Len(collab_calls)].result = "False"
    /\ "CONNECT" \in network_dict.keys

(* the indices build_connections applies to its list and to the last item of
   the list are in range *)
ListIndexesInRange ==
    LastSymbolAsked
    => /\ InRange({-1}, network_dict.CONNECT)
       /\ InRange({-1}, network_dict.CONNECT[Len(network_dict.CONNECT)])

(* C36: every non-placeholder item of the syntax phase has one of the fixed
   shapes (device of 2 or 3 symbols, connection of 5 or 7, monitor of 1 or
   3), so no index used by build_devices, build_connections, build_monitors
   or get_labelled_symbols is out of range: neither an index into an item nor
   the index -1 build_connections applies to the list of connections. *)
C36_Claimed == ItemShapes /\ ListIndexesInRange

(* the results of the collaborators that end the build: the codes of the
   table other than the warning, and check_network answering False *)
FatalResults == (semantic_error_codes \ {"Monitor present"}) \cup {"False"}

(* C37: whenever parse_network returns False a diagnostic has been emitted
   (printed, or buffered in error_messages), for every input and every fatal
   code, and it returns False only if a syntax error was recorded or a
   collaborator gave a fatal result. *)
C37_Claimed ==
    (ret = "False")
    => /\ Emitted # <<>>
       /\ \/ num_of_errors > 0
          \/ \E i \in DOMAIN collab_calls :
                collab_calls[i].result \in FatalResults

(* build_connections has just asked check_network *)
NetworkChecked ==
    /\ collab_calls # <<>>
    /\ collab_calls[Len(collab_calls)].method = "check_network"

(* C38: build_connections returns a boolean without raising for every
   connection list, the empty one included: when check_network answers False
   it reports the unconnected inputs and parse_network returns False. *)
C38_Claimed ==
    (NetworkChecked /\ network_dict.keys = AllKeys)
    => /\ ret # "raise"
       /\ collab_calls[Len(collab_calls)].result = "False"
          => /\ ret = "False"
             /\ print_calls # <<>>
             /\ print_calls[Len(print_calls)].message.cat
                = "Input not connected"

(***************************************************************************)
(* The type of a text against its first violation of the rules of names    *)
(***************************************************************************)
BothAsked ==
    /\ ApiCallsOf("determine_type") # {}
    /\ ApiCallsOf("index_not_name") # {}

(* C39: for every text of a token, determine_type gives 'name' iff
   index_not_name gives None; so for a symbol that check_name rejects (its
   type is not 'name'), the index_not_name that display_syntax_error(9, ...)
   subscripts is a pair of an offset into the text and a subcode 1..3,
   never None. *)
C39_NameIffNoViolation ==
    BothAsked
    => LET type == ResultOf("determine_type")
           error_loc_and_code == ResultOf("index_not_name")
       IN /\ (type = "name") <=> (error_loc_and_code = <<None, None>>)
          /\ type # "name"
             => /\ error_loc_and_code[1] \in 0..(Len(input_string) - 1)
                /\ error_loc_and_code[2] \in 1..3

(* 'aA' is a string, not a name: the arrow goes under offset 1, subcode 3 *)
C39_Witness ==
    /\ BothAsked
    /\ input_string = <<"a", "A">>
    /\ ResultOf("determine_type") = "string"
    /\ ResultOf("index_not_name") = <<1, 3>>

(***************************************************************************)
(* The interface of the gui after update_network                           *)
(***************************************************************************)
(* update_network has been left, by a return or by an exception *)
UpdateNetworkLeft == update_ret # NotLeft

(* C31: update_network replaces names, devices, network, monitors and
   scanner together and only when parse_network succeeded, leaves all five
   unchanged when it failed, and in both cases returns the success flag with
   the diagnostics accumulated by the new scanner. *)
C31_Claimed ==
    UpdateNetworkLeft
    => /\ interface = (IF ret = "True" THEN NewInstances ELSE GuiInterface)
       /\ update_ret = Returns(<<ret = "True", error_messages>>)

====
